---- MODULE Spec2Model ----
(***************************************************************************)
(* The authentication / authorization gate of pizza-taste-meter            *)
(* (netlify/functions/lib/auth.ts): extractUser, requireAuth, requireAdmin *)
(* evaluated by concurrently running requests against the users table,     *)
(* and the handlers behind it: POST /api/ratings (with and without the     *)
(* gate) and POST, PUT, DELETE /api/surveys, the read routes, GET /api/me, *)
(* the blob-backed ratings handler, and the client: AuthProvider,          *)
(* AuthModal and SurveyPage.                                               *)
(*                                                                         *)
(* Strings are sequences of characters.  The characters of a token are     *)
(* "." and base64url groups; a group is written as the two- or three-      *)
(* letter name of the JSON lexeme it encodes ("Lb" encodes "{").           *)
(***************************************************************************)
EXTENDS Integers, Sequences, FiniteSets, TLC

VARIABLES users, req, now, uniqueIds, surveys, ratings, call, blob,
          provider, modal, page

vars == <<users, req, now, uniqueIds, surveys, ratings, call, blob,
          provider, modal, page>>

\* the state of the browser: AuthProvider, AuthModal and the survey page
client == <<provider, modal, page>>

-----------------------------------------------------------------------------
(* Bounds *)

\* number of request slots (guard evaluations that may overlap)
NumReq == 2

\* the wall clock (Date.now(), in ms) runs from StartNow to at most MaxNow
MaxNow == 2500

\* the clock advances in steps of TickMs
TickMs == 500

StartNow == MaxNow - TickMs

Reqs == 1..NumReq

-----------------------------------------------------------------------------
(* Strings *)

BearerPrefix == <<"B", "e", "a", "r", "e", "r", " ">>

BasicPrefix == <<"B", "a", "s", "i", "c", " ">>

\* String.prototype.startsWith
StartsWith(s, p) == Len(s) >= Len(p) /\ SubSeq(s, 1, Len(p)) = p

\* String.prototype.slice(n)
Slice(s, n) == SubSeq(s, n + 1, Len(s))

\* String.prototype.split("."): a string with k dots has k + 1 segments,
\* the empty string one (empty) segment
RECURSIVE Split(_)
Split(s) ==
    LET dots == {i \in 1..Len(s) : s[i] = "."}
    IN  IF dots = {} THEN <<s>>
        ELSE LET i == CHOOSE d \in dots : \A e \in dots : d <= e
             IN  <<SubSeq(s, 1, i - 1)>> \o Split(SubSeq(s, i + 1, Len(s)))

-----------------------------------------------------------------------------
(* Decoding the payload segment *)

\* .replace(/-/g, "+").replace(/_/g, "/") on one base64url group
UrlSafeToStd(c) ==
    CASE c = "S_2" -> "S/2"
      [] c = "X-1" -> "X+1"
      [] OTHER -> c

Lex(t, k, v) == [t |-> t, k |-> k, v |-> v]

\* Buffer.from(..., "base64").toString() on one group: the JSON lexeme it
\* encodes; groups that encode no JSON text give bytes JSON.parse rejects
Base64Group(c) ==
    CASE c = "Lb"  -> Lex("{", "", 0)
      [] c = "Rb"  -> Lex("}", "", 0)
      [] c = "Nl"  -> Lex("null", "", 0)
      [] c = "S1"  -> Lex("field", "sub", 1)
      [] c = "S/2" -> Lex("field", "sub", 2)
      [] c = "M1"  -> Lex("field", "email", 1)
      [] c = "M2"  -> Lex("field", "email", 2)
      [] c = "X+1" -> Lex("field", "exp", -1)
      [] c = "X0"  -> Lex("field", "exp", 0)
      [] c = "X2"  -> Lex("field", "exp", 2)
      [] c = "X3"  -> Lex("field", "exp", 3)
      [] c = "Ra"  -> Lex("field", "roles", 1)
      [] OTHER     -> Lex("junk", "", 0)

Base64Decode(seg) == [i \in 1..Len(seg) |-> Base64Group(UrlSafeToStd(seg[i]))]

\* undefined (a property the payload does not have)
NoValue == 0

\* a parser that takes an object whose closing brace is missing
IsJsonObject_Unclosed(text) ==
    /\ Len(text) >= 1
    /\ text[1].t = "{"
    /\ \A i \in 2..(Len(text) - 1) : text[i].t = "field"

\* the text is an object: "{" field* "}"
IsJsonObject(text) ==
    /\ Len(text) >= 2
    /\ text[1].t = "{"
    /\ text[Len(text)].t = "}"
    /\ \A i \in 2..(Len(text) - 1) : text[i].t = "field"

\* JSON.parse: a SyntaxError unless the text is the literal null or an object
JsonParse(text) ==
    LET n == Len(text)
        isNull == n = 1 /\ text[1].t = "null"
        isObject == IsJsonObject(text)
        Has(k) == \E i \in 2..(n - 1) : text[i].k = k
        \* a repeated key keeps its last value
        Get(k) == IF Has(k)
                  THEN text[CHOOSE i \in 2..(n - 1) :
                              /\ text[i].k = k
                              /\ \A j \in 2..(n - 1) : text[j].k = k => j <= i].v
                  ELSE NoValue
    IN  IF isNull THEN [throws |-> FALSE, isNull |-> TRUE, hasExp |-> FALSE,
                        exp |-> NoValue, sub |-> NoValue, email |-> NoValue,
                        roles |-> NoValue]
        ELSE IF isObject
        THEN [throws |-> FALSE, isNull |-> FALSE, hasExp |-> Has("exp"),
              exp |-> Get("exp"), sub |-> Get("sub"), email |-> Get("email"),
              roles |-> Get("roles")]
        ELSE [throws |-> TRUE, isNull |-> FALSE, hasExp |-> FALSE,
              exp |-> NoValue, sub |-> NoValue, email |-> NoValue,
              roles |-> NoValue]

-----------------------------------------------------------------------------
(* Values of the gate *)

\* exp is in seconds, Date.now() in milliseconds
MsPerSec == 1000

\* AuthResult.user = null
NullUser == [id |-> -1, email |-> -1, roles |-> -1]

\* AuthResult.dbUser = null, and the undefined first element of an empty result
NullRow == [id |-> 0, netlify_id |-> 0, email |-> 0, role |-> "", created_at |-> 0]

AuthResult(user, dbUser, error) == [user |-> user, dbUser |-> dbUser, error |-> error]

\* no errorResponse
NoResponse == [status |-> 200, error |-> ""]

unauthorizedResponse(message) == [status |-> 401, error |-> message]

forbiddenResponse(message) == [status |-> 403, error |-> message]

\* an expiry check that also rejects a token in its last millisecond
IsExpired_Inclusive(payload, t) ==
    /\ payload.hasExp
    /\ payload.exp # 0
    /\ payload.exp * MsPerSec <= t

\* payload.exp && payload.exp * 1000 < Date.now()
IsExpired(payload, t) ==
    /\ payload.hasExp
    /\ payload.exp # 0
    /\ payload.exp * MsPerSec < t

\* a header check that forgets the scheme
NoBearer_PresenceOnly(header) == ~header.present \/ header.value = <<>>

\* !authHeader || !authHeader.startsWith("Bearer ")
NoBearer(header) ==
    \/ ~header.present
    \/ header.value = <<>>
    \/ ~StartsWith(header.value, BearerPrefix)

\* a segment check that only asks for enough segments
WrongPartCount_TooFew(parts) == Len(parts) < 3

\* parts.length !== 3
WrongPartCount(parts) == Len(parts) # 3

\* a decoder that reads the claims from the header segment
PayloadPart_First(parts) == parts[1]

\* parts[1] of the source (0-based): the payload is the middle segment; the
\* first and the third segment are never read
PayloadPart(parts) == parts[2]

\* extractUser up to its first await: what the synchronous part decides.
\* next is "return" (extractUser returns auth) or "lookup" (the SELECT is
\* issued for netlifyUser, here auth.user).
Decode(header, t) ==
    IF NoBearer(header)
    THEN [next |-> "return", auth |-> AuthResult(NullUser, NullRow, "")]
    ELSE LET token == Slice(header.value, 7)
             parts == Split(token)
         IN  IF WrongPartCount(parts)
             THEN [next |-> "return",
                   auth |-> AuthResult(NullUser, NullRow, "Invalid token format")]
             ELSE LET payload == JsonParse(Base64Decode(PayloadPart(parts)))
                  IN  IF payload.throws \/ payload.isNull
                      THEN \* SyntaxError from JSON.parse, TypeError from
                           \* null.exp: both land in the catch block
                           [next |-> "return",
                            auth |-> AuthResult(NullUser, NullRow, "Failed to verify token")]
                      ELSE IF IsExpired(payload, t)
                      THEN [next |-> "return",
                            auth |-> AuthResult(NullUser, NullRow, "Token expired")]
                      ELSE [next |-> "lookup",
                            auth |-> AuthResult([id |-> payload.sub,
                                                 email |-> payload.email,
                                                 roles |-> payload.roles],
                                                NullRow, "")]

\* requireAuth once extractUser has returned auth
requireAuth(auth) ==
    IF auth.user = NullUser \/ auth.dbUser = NullRow
    THEN unauthorizedResponse(IF auth.error # "" THEN auth.error
                              ELSE "Authentication required")
    ELSE NoResponse

\* an admin guard that trusts the roles the token claims
requireAdmin_TokenRoles(auth) ==
    LET errorResponse == requireAuth(auth)
    IN  IF errorResponse # NoResponse THEN errorResponse
        ELSE IF auth.dbUser.role # "admin" /\ auth.user.roles # 1
        THEN forbiddenResponse("Admin access required")
        ELSE NoResponse

\* an admin guard that looks at the role before the error response
requireAdmin_RoleFirst(auth) ==
    IF auth.dbUser.role # "admin"
    THEN forbiddenResponse("Admin access required")
    ELSE requireAuth(auth)

\* requireAdmin once extractUser has returned auth
requireAdmin(auth) ==
    LET errorResponse == requireAuth(auth)
    IN  IF errorResponse # NoResponse THEN errorResponse
        ELSE IF auth.dbUser.role # "admin"
        THEN forbiddenResponse("Admin access required")
        ELSE NoResponse

Guards == {"requireAuth", "requireAdmin"}

\* what the guard returns as errorResponse; a handler that calls extractUser
\* itself gets none
GuardResponse(guard, auth) ==
    IF guard = "requireAdmin" THEN requireAdmin(auth)
    ELSE IF guard = "requireAuth" THEN requireAuth(auth)
    ELSE NoResponse

-----------------------------------------------------------------------------
(* The requests clients send *)

Seg(fields) == <<"Lb">> \o fields \o <<"Rb">>

Tok(a, b, c) == a \o <<".">> \o b \o <<".">> \o c

ExpGroups == {<<>>, <<"X-1">>, <<"X0">>, <<"X2">>, <<"X3">>}

GoodPayloads ==
    {Seg(<<s, "M1">> \o e) : s \in {"S1", "S_2"}, e \in ExpGroups}
        \cup {Seg(<<"S1", "M2">>), Seg(<<"S_2", "M1", "Ra">>)}

\* truncated JSON, the empty segment, bytes that are no JSON, the literal null
BadPayloads == {<<"Lb", "S1", "M1">>, <<>>, <<"zz">>, <<"Nl">>}

Tokens ==
    {Tok(<<"hh">>, p, <<"ss">>) : p \in GoodPayloads \cup BadPayloads}
        \cup {Tok(<<"tt">>, Seg(<<"S1", "M1">>), <<"uu">>),
              Tok(<<"tt">>, Seg(<<"S1", "M2">>), <<"uu">>)}
        \cup {<<>>, <<"hh">>,
              <<"hh", ".">> \o Seg(<<"S1", "M1">>),
              Tok(<<"hh">>, Seg(<<"S1", "M1">>), <<"ss">>) \o <<".", "ss">>}

Bearer(t) == [present |-> TRUE, value |-> BearerPrefix \o t]

Headers ==
    {[present |-> FALSE, value |-> <<>>]}
        \cup {[present |-> TRUE, value |-> v] :
                v \in {BasicPrefix \o Tok(<<"hh">>, Seg(<<"S1", "M1">>), <<"ss">>),
                       SubSeq(BearerPrefix, 1, 6)}}
        \cup {Bearer(t) : t \in Tokens}

CoreHeaders ==
    {[present |-> FALSE, value |-> <<>>],
     Bearer(Tok(<<"hh">>, Seg(<<"S1", "M1">>), <<"ss">>)),
     Bearer(Tok(<<"tt">>, Seg(<<"S1", "M2">>), <<"uu">>)),
     Bearer(Tok(<<"hh">>, Seg(<<"S_2", "M1", "Ra">>), <<"ss">>))}

-----------------------------------------------------------------------------
(* State *)

\* rows the users table may hold before the first request: role changes are
\* made outside the gate, so an admin exists only if the table starts with one
SeedTables ==
    {{},
     {[id |-> 1, netlify_id |-> 1, email |-> 1, role |-> "admin", created_at |-> 1000]},
     {[id |-> 1, netlify_id |-> 1, email |-> 1, role |-> "editor", created_at |-> 1000]}}

IdleReq ==
    [pc |-> "idle", guard |-> "requireAuth",
     header |-> [present |-> FALSE, value |-> <<>>],
     netlifyUser |-> NullUser,
     auth |-> AuthResult(NullUser, NullRow, ""),
     response |-> NoResponse,
     lookups |-> 0, inserts |-> 0, fault |-> "", after |-> {}]

\* JavaScript values, as a parsed request body holds them
Js(t, n, s) == [t |-> t, n |-> n, s |-> s]

Undefined == Js("undefined", 0, <<>>)

JsNull == Js("null", 0, <<>>)

JsNum(n) == Js("number", n, <<>>)

JsStr(s) == Js("string", 0, s)

JsTrue == Js("boolean", 1, <<>>)

\* a request body: text that is no JSON, the JSON text null, or an object
\* with the members the handlers read
Body(json, surveyId, score, description) ==
    [json |-> json, surveyId |-> surveyId, score |-> score,
     description |-> description]

NoBody == Body("object", Undefined, Undefined, Undefined)

\* no answer yet
NoAnswer == [status |-> 0, error |-> ""]

\* user_id of a rating stored by the handler without the gate
NullId == 0

\* a survey row (created_at plays no part)
Survey(id, description) == [id |-> id, description |-> description]

\* the surveys the store holds before the first request
SeedSurveys == {Survey(<<"a">>, <<"M">>), Survey(<<"b">>, <<"Q">>)}

\* the body of an answer of /api/me
MeData(authenticated, user) == [authenticated |-> authenticated, user |-> user]

NoData == MeData(FALSE, NullRow)

IdleCall ==
    [op |-> "none", pc |-> "idle", body |-> NoBody, path |-> "",
     timestamp |-> 0, answer |-> NoAnswer, fault |-> "", data |-> NoData,
     header |-> [present |-> FALSE, value |-> <<>>], list |-> <<>>]

\* no fetchDbUser request is in flight
NoFetch == [mount |-> FALSE, login |-> FALSE]

\* AuthProvider before its mount effect has run: useState initial values,
\* with session the GoTrue current user of the browser (0: none)
Unmounted ==
    [mounted |-> FALSE, session |-> 0, user |-> 0, dbUser |-> NullRow,
     isLoading |-> TRUE, isModalOpen |-> FALSE, modalMode |-> "login",
     fetch |-> NoFetch, logout |-> "idle"]

\* AuthModal after its first render: useState initial values; pc is the
\* await handleSubmit is at, effects the effects whose dependencies changed
\* in the last commit, submitted the last submit that went through
ClosedModal ==
    [mode |-> "login", isLoading |-> FALSE, error |-> "", success |-> "",
     pc |-> "idle", effects |-> {}, submitted |-> ""]

\* no rating: myRating null, { rating: null }
NoRating == [id |-> NullId, score |-> [n |-> 0, nan |-> FALSE], timestamp |-> 0]

\* a request of the survey page: not sent, "sent", or "served" with the
\* answer on its way
IdleFetch == [pc |-> "none", ok |-> TRUE, list |-> <<>>, rating |-> NoRating]

\* the survey page before its effects have run: useState initial values;
\* hadRating is the myRating the running handleRate closed over
UnloadedPage ==
    [loaded |-> FALSE, isLoading |-> TRUE, ratings |-> <<>>,
     myRating |-> NoRating, isSaving |-> FALSE, error |-> "",
     load |-> IdleFetch, my |-> IdleFetch, rate |-> IdleFetch,
     hadRating |-> FALSE]

InitGate ==
    /\ users \in SeedTables
    /\ req = [r \in Reqs |-> IdleReq]
    /\ now = StartNow
    /\ uniqueIds \in BOOLEAN

\* nothing but the server side is looked at
InitClient ==
    /\ provider = Unmounted
    /\ modal = ClosedModal
    /\ page = UnloadedPage

Init ==
    /\ InitGate
    /\ surveys = SeedSurveys
    /\ ratings = {}
    /\ call = [r \in Reqs |-> IdleCall]
    /\ blob = <<>>
    /\ InitClient

Done(r) == req[r].pc = "done"

\* extractUser returns auth and the guard returns to the handler
Return(rec, auth) ==
    [rec EXCEPT !.pc = "done", !.auth = auth,
                !.response = GuardResponse(rec.guard, auth)]

\* a catch block that drops its message
Caught_NoMessage == AuthResult(NullUser, NullRow, "")

\* the catch block of extractUser; fault records what was thrown
Caught == AuthResult(NullUser, NullRow, "Failed to verify token")

\* an exception nothing catches: the platform answers for the handler
Throw_Escapes(rec, fault) ==
    [rec EXCEPT !.pc = "done", !.fault = fault,
                !.response = [status |-> 500, error |-> "Internal Server Error"]]

\* a catch block that issues the failed statement again
Throw_Retries(rec, fault) ==
    [rec EXCEPT !.fault = fault,
                !.lookups = IF rec.pc = "lookup" THEN rec.lookups + 1 ELSE rec.lookups,
                !.inserts = IF rec.pc = "insert" THEN rec.inserts + 1 ELSE rec.inserts]

Throw(rec, fault) == Return([rec EXCEPT !.fault = fault], Caught)

\* a handler calls its guard: extractUser runs to its first await.  Slots are
\* taken in arrival order.
Entered(r, guard, header) ==
    LET d == Decode(header, now)
        rec == [req[r] EXCEPT !.guard = guard, !.header = header,
                              !.after = {q \in Reqs : Done(q)}]
    IN  IF d.next = "return" THEN Return(rec, d.auth)
        ELSE [rec EXCEPT !.pc = "lookup", !.netlifyUser = d.auth.user,
                         !.lookups = 1]

\* the next free slot is r
Arrives(r) ==
    /\ req[r].pc = "idle"
    /\ \A q \in Reqs : q < r => req[q].pc # "idle"

Begin(r, guard, header) ==
    /\ Arrives(r)
    /\ req' = [req EXCEPT ![r] = Entered(r, guard, header)]
    /\ UNCHANGED <<users, now, uniqueIds, surveys, ratings, call, blob, client>>

\* a lookup on the wrong column
Matching_ById(id) == {u \in users : u.id = id}

\* SELECT ... WHERE netlify_id = ${netlifyUser.id}: [dbUser] is the first row
\* of the result, any of the matching rows when there are several
Matching(id) == {u \in users : u.netlify_id = id}

\* a lookup that hands back the row with the email of the token
FoundRow_TokenEmail(row, user) == [row EXCEPT !.email = user.email]

\* the row the SELECT found is returned as it is stored
FoundRow(row, user) == row

InsertStatement(rec) ==
    [rec EXCEPT !.pc = "insert", !.inserts = rec.inserts + 1]

LookupReturns(r) ==
    /\ req[r].pc = "lookup"
    /\ LET rows == Matching(req[r].netlifyUser.id)
       IN  IF rows = {}
           THEN req' = [req EXCEPT ![r] = InsertStatement(req[r])]
           ELSE \E row \in rows :
                  req' = [req EXCEPT ![r] =
                            Return(req[r], AuthResult(req[r].netlifyUser,
                                                      FoundRow(row, req[r].netlifyUser),
                                                      ""))]
    /\ UNCHANGED <<users, now, uniqueIds, surveys, ratings, call, blob, client>>

\* the store holds a unique index on users.netlify_id and a row with this id
Conflicts(id) == uniqueIds /\ \E u \in users : u.netlify_id = id

\* an insert that takes the role from the roles the token claims
NewRow_TokenRole(user) ==
    [id |-> Cardinality(users) + 1, netlify_id |-> user.id, email |-> user.email,
     role |-> IF user.roles = 1 THEN "admin" ELSE "user", created_at |-> now]

\* INSERT INTO users (netlify_id, email, role) VALUES (id, email, 'user')
NewRow(user) ==
    [id |-> Cardinality(users) + 1, netlify_id |-> user.id, email |-> user.email,
     role |-> "user", created_at |-> now]

InsertReturns(r) ==
    /\ req[r].pc = "insert"
    /\ ~Conflicts(req[r].netlifyUser.id)
    /\ LET row == NewRow(req[r].netlifyUser)
       IN  /\ users' = users \cup {row}
           /\ req' = [req EXCEPT ![r] =
                        Return(req[r], AuthResult(req[r].netlifyUser, row, ""))]
    /\ UNCHANGED <<now, uniqueIds, surveys, ratings, call, blob, client>>

\* the store rejects the INSERT: netlify_id is unique and already present
InsertConflicts(r) ==
    /\ req[r].pc = "insert"
    /\ Conflicts(req[r].netlifyUser.id)
    /\ req' = [req EXCEPT ![r] = Throw(req[r], "conflict")]
    /\ UNCHANGED <<users, now, uniqueIds, surveys, ratings, call, blob, client>>

\* the store is unreachable or times out: the awaited statement throws
\* without having taken effect
StoreFails(r) ==
    /\ req[r].pc \in {"lookup", "insert"}
    /\ req' = [req EXCEPT ![r] = Throw(req[r], "unavailable")]
    /\ UNCHANGED <<users, now, uniqueIds, surveys, ratings, call, blob, client>>

Tick ==
    /\ now + TickMs <= MaxNow
    /\ now' = now + TickMs
    /\ UNCHANGED <<users, req, uniqueIds, surveys, ratings, call, blob, client>>

\* Requests of several clients, overlapping: the headers are well-formed
\* tokens of two subjects (a second token of subject 1 differs in its email
\* and its signature, the token of subject 2 claims the admin role) and the
\* missing header.
Next ==
    \/ \E r \in Reqs, g \in Guards, h \in CoreHeaders : Begin(r, g, h)
    \/ \E r \in Reqs : LookupReturns(r)
    \/ \E r \in Reqs : InsertReturns(r)
    \/ \E r \in Reqs : InsertConflicts(r)
    \/ \E r \in Reqs : StoreFails(r)
    \/ Tick

Spec == Init /\ [][Next]_vars

\* One guard evaluation on any header of Headers, at any time of the clock.
NextSingle ==
    \/ \E g \in Guards, h \in Headers : Begin(1, g, h)
    \/ LookupReturns(1)
    \/ InsertReturns(1)
    \/ StoreFails(1)
    \/ Tick

SpecSingle == Init /\ [][NextSingle]_vars

\* Overlapping requests of one subject whose tokens differ only in what the
\* gate must not look at: the roles the token claims, and the first and third
\* segment.
TwinHeaders ==
    {Bearer(Tok(<<"hh">>, Seg(<<"S1", "M1">>), <<"ss">>)),
     Bearer(Tok(<<"hh">>, Seg(<<"S1", "M1", "Ra">>), <<"ss">>)),
     Bearer(Tok(<<"tt">>, Seg(<<"S1", "M1">>), <<"uu">>))}

NextTwin ==
    \/ \E r \in Reqs, g \in Guards, h \in TwinHeaders : Begin(r, g, h)
    \/ \E r \in Reqs : LookupReturns(r)
    \/ \E r \in Reqs : InsertReturns(r)
    \/ \E r \in Reqs : InsertConflicts(r)
    \/ \E r \in Reqs : StoreFails(r)
    \/ Tick

SpecTwin == Init /\ [][NextTwin]_vars

-----------------------------------------------------------------------------
(* What the handlers make of a request body *)

Digits == <<"0", "1", "2", "3", "4", "5", "6", "7", "8", "9">>

IsDigit(c) == \E i \in 1..10 : Digits[i] = c

DigitValue(c) == (CHOOSE i \in 1..10 : Digits[i] = c) - 1

RECURSIVE Decimal(_)
Decimal(s) ==
    IF s = <<>> THEN 0
    ELSE 10 * Decimal(SubSeq(s, 1, Len(s) - 1)) + DigitValue(s[Len(s)])

\* String.prototype.trim
RECURSIVE Trim(_)
Trim(s) ==
    IF s # <<>> /\ s[1] = " " THEN Trim(Tail(s))
    ELSE IF s # <<>> /\ s[Len(s)] = " " THEN Trim(SubSeq(s, 1, Len(s) - 1))
    ELSE s

\* a JavaScript number: NaN, or the integer n
NaN == [nan |-> TRUE, n |-> 0]

Num(n) == [nan |-> FALSE, n |-> n]

\* Number(s) of a string: blank is 0, an optionally signed run of digits is
\* its value, anything else is NaN
StringToNumber(s) ==
    LET t == Trim(s)
        neg == t # <<>> /\ t[1] = "-"
        d == IF neg THEN Tail(t) ELSE t
    IN  IF t = <<>> THEN Num(0)
        ELSE IF d # <<>> /\ \A i \in 1..Len(d) : IsDigit(d[i])
        THEN Num(IF neg THEN 0 - Decimal(d) ELSE Decimal(d))
        ELSE NaN

\* Number(v)
ToNumber(v) ==
    CASE v.t = "undefined" -> NaN
      [] v.t = "null" -> Num(0)
      [] v.t = "boolean" -> Num(v.n)
      [] v.t = "number" -> Num(v.n)
      [] v.t = "string" -> StringToNumber(v.s)

\* !v is false
Truthy(v) ==
    CASE v.t = "undefined" -> FALSE
      [] v.t = "null" -> FALSE
      [] v.t = "boolean" -> v.n = 1
      [] v.t = "number" -> v.n # 0
      [] v.t = "string" -> v.s # <<>>

\* comparisons with NaN are false
LessThan(x, n) == ~x.nan /\ x.n < n

GreaterThan(x, n) == ~x.nan /\ x.n > n

\* a score check without the upper limit
ScoreRejected_NoUpper(score) == score.nan \/ LessThan(score, 1)

\* isNaN(score) || score < 1 || score > 10
ScoreRejected(score) ==
    score.nan \/ LessThan(score, 1) \/ GreaterThan(score, 10)

HexChars == {"a", "b", "c", "d", "e", "f"} \cup {Digits[i] : i \in 1..10}

\* ${v}::uuid: the store takes a string of hexadecimal characters (the
\* uuids here are one character long) and rejects anything else
CastUuid(v) ==
    [ok |-> v.t = "string" /\ v.s # <<>> /\ \A i \in 1..Len(v.s) : v.s[i] \in HexChars,
     id |-> v.s]

SurveyIds(table) == {x.id : x \in table}

Answer(status, error) == [status |-> status, error |-> error]

\* the handler returns this response
Answered(c, response) == [c EXCEPT !.pc = "done", !.answer = response]

\* the catch block of a handler; fault records what was thrown
Failed(c, fault) ==
    [c EXCEPT !.pc = "done", !.fault = fault,
              !.answer = Answer(500, "Internal server error")]

-----------------------------------------------------------------------------
(* POST /api/ratings *)

\* a handler that checks the score before the survey id
RatingChecks_ScoreFirst(c) ==
    IF c.body.json # "object" THEN Failed(c, "body")
    ELSE IF ScoreRejected(ToNumber(c.body.score))
    THEN Answered(c, Answer(400, "Score must be between 1 and 10"))
    ELSE IF ~Truthy(c.body.surveyId)
    THEN Answered(c, Answer(400, "surveyId is required"))
    ELSE [c EXCEPT !.pc = "statement", !.timestamp = now]

\* from request.json() to the statement: request.json() throws on text that
\* is no JSON, body.score throws on null
RatingChecks(c) ==
    IF c.body.json # "object" THEN Failed(c, "body")
    ELSE IF ~Truthy(c.body.surveyId)
    THEN Answered(c, Answer(400, "surveyId is required"))
    ELSE IF ScoreRejected(ToNumber(c.body.score))
    THEN Answered(c, Answer(400, "Score must be between 1 and 10"))
    ELSE [c EXCEPT !.pc = "statement", !.timestamp = now]

\* the next free slot is r
Enters(r) ==
    /\ call[r].pc = "idle"
    /\ req[r].pc = "idle"
    /\ \A q \in Reqs : q < r => call[q].pc # "idle"

\* the handler with the gate is entered and calls requireAuth
RatePost(r, header, body) ==
    /\ Enters(r)
    /\ req' = [req EXCEPT ![r] = Entered(r, "requireAuth", header)]
    /\ call' = [call EXCEPT ![r] =
                  [IdleCall EXCEPT !.op = "rate", !.pc = "guard", !.body = body]]
    /\ UNCHANGED <<users, now, uniqueIds, surveys, ratings, blob, client>>

\* the handler without the gate is entered
AnonPost(r, body) ==
    /\ Enters(r)
    /\ call' = [call EXCEPT ![r] =
                  RatingChecks([IdleCall EXCEPT !.op = "rateAnon", !.body = body])]
    /\ UNCHANGED <<users, req, now, uniqueIds, surveys, ratings, blob, client>>

\* the store rejects a rating whose survey id is no uuid or names no survey
\* (ratings.survey_id references surveys.id)
RatingRejected(body) ==
    \/ ~CastUuid(body.surveyId).ok
    \/ CastUuid(body.surveyId).id \notin SurveyIds(surveys)

RatingRow(id, c, userId) ==
    [id |-> id, survey_id |-> CastUuid(c.body.surveyId).id,
     score |-> ToNumber(c.body.score), timestamp |-> c.timestamp,
     user_id |-> userId]

\* the rows the conflict target (user_id, survey_id) matches
Conflicting(row) ==
    {x \in ratings : x.user_id = row.user_id /\ x.survey_id = row.survey_id}

\* an insert that never takes the conflict branch
Upserted_AlwaysInsert(row) == ratings \cup {row}

\* INSERT ... ON CONFLICT (user_id, survey_id) WHERE user_id IS NOT NULL
\* DO UPDATE SET score, timestamp: one statement, atomic in the store
Upserted(row) ==
    IF Conflicting(row) = {} THEN ratings \cup {row}
    ELSE {IF x \in Conflicting(row)
          THEN [x EXCEPT !.score = row.score, !.timestamp = row.timestamp]
          ELSE x : x \in ratings}

Upsert(r) ==
    /\ call[r].pc = "statement"
    /\ call[r].op = "rate"
    /\ IF RatingRejected(call[r].body)
       THEN /\ call' = [call EXCEPT ![r] = Failed(call[r], "rejected")]
            /\ UNCHANGED ratings
       ELSE /\ ratings' = Upserted(RatingRow(Cardinality(ratings) + 1, call[r],
                                             req[r].auth.dbUser.id))
            /\ call' = [call EXCEPT ![r] = Answered(call[r], Answer(201, ""))]
    /\ UNCHANGED <<users, req, now, uniqueIds, surveys, blob, client>>

\* INSERT INTO ratings (survey_id, score, timestamp)
AnonInsert(r) ==
    /\ call[r].pc = "statement"
    /\ call[r].op = "rateAnon"
    /\ IF RatingRejected(call[r].body)
       THEN /\ call' = [call EXCEPT ![r] = Failed(call[r], "rejected")]
            /\ UNCHANGED ratings
       ELSE /\ ratings' = ratings \cup {RatingRow(Cardinality(ratings) + 1, call[r], NullId)}
            /\ call' = [call EXCEPT ![r] = Answered(call[r], Answer(201, ""))]
    /\ UNCHANGED <<users, req, now, uniqueIds, surveys, blob, client>>

\* the store is unreachable: the awaited statement throws without having
\* taken effect
StatementFails(r) ==
    /\ call[r].pc \in {"statement", "second", "read", "write"}
    /\ call' = [call EXCEPT ![r] = Failed(call[r], "unavailable")]
    /\ UNCHANGED <<users, req, now, uniqueIds, surveys, ratings, blob, client>>

-----------------------------------------------------------------------------
(* POST /api/surveys, PUT and DELETE /api/surveys/:id *)

SurveyOps == {"create", "update", "delete"}

\* surveyId && /^[a-f0-9-]+$/i.test(surveyId), surveyId the third part of
\* the path if the path has three parts
IsValidId(path) ==
    /\ path # <<>>
    /\ \A i \in 1..Len(path) : path[i] \in HexChars \cup {"-"}

\* PUT and DELETE without a valid id in the path fall through to 405
Routed(op, path) == op = "create" \/ IsValidId(path)

\* the handler is entered; the admin routes call requireAdmin
SurveyRequest(r, op, path, header, body) ==
    /\ Enters(r)
    /\ LET c == [IdleCall EXCEPT !.op = op, !.path = path, !.body = body]
       IN  IF Routed(op, path)
           THEN /\ req' = [req EXCEPT ![r] = Entered(r, "requireAdmin", header)]
                /\ call' = [call EXCEPT ![r] = [c EXCEPT !.pc = "guard"]]
           ELSE /\ call' = [call EXCEPT ![r] =
                              Answered(c, Answer(405, "Method not allowed"))]
                /\ UNCHANGED req
    /\ UNCHANGED <<users, now, uniqueIds, surveys, ratings, blob, client>>

\* body.description?.trim() throws on a description that is no string
TrimThrows(body) ==
    \/ body.json # "object"
    \/ body.description.t \in {"number", "boolean"}

\* from request.json() to the statement of POST and PUT
SurveyChecks(c) ==
    IF TrimThrows(c.body) THEN Failed(c, "body")
    ELSE IF c.body.description.t # "string" \/ Trim(c.body.description.s) = <<>>
    THEN Answered(c, Answer(400, "Description is required"))
    ELSE [c EXCEPT !.pc = "statement"]

\* the handler after its guard returned to it without an error response
Checked(c) ==
    CASE c.op = "rate" -> RatingChecks(c)
      [] c.op \in {"create", "update"} -> SurveyChecks(c)
      [] c.op = "delete" -> [c EXCEPT !.pc = "statement"]

\* a handler that goes on whatever its guard returned
AfterGuard_Unchecked(c, rec) == Checked(c)

\* if (errorResponse) return errorResponse;
AfterGuard(c, rec) ==
    IF rec.response # NoResponse THEN Answered(c, rec.response)
    ELSE Checked(c)

\* the guard has returned: the handler goes on to its first statement or to
\* its answer
Resume(r) ==
    /\ call[r].pc = "guard"
    /\ req[r].guard \in Guards
    /\ req[r].pc = "done"
    /\ call' = [call EXCEPT ![r] = AfterGuard(call[r], req[r])]
    /\ UNCHANGED <<users, req, now, uniqueIds, surveys, ratings, blob, client>>

\* uuids the store hands out, in this order
UuidPool == <<"c", "d", "e", "f", "0", "1", "2", "3">>

\* gen_random_uuid(): an id no survey has
FreshId(table) ==
    LET i == CHOOSE j \in 1..Len(UuidPool) :
                 /\ <<UuidPool[j]>> \notin SurveyIds(table)
                 /\ \A k \in 1..(j - 1) : <<UuidPool[k]>> \in SurveyIds(table)
    IN  <<UuidPool[i]>>

\* INSERT INTO surveys (description) VALUES (description)
InsertSurvey(r) ==
    /\ call[r].pc = "statement"
    /\ call[r].op = "create"
    /\ surveys' = surveys \cup {Survey(FreshId(surveys),
                                       Trim(call[r].body.description.s))}
    /\ call' = [call EXCEPT ![r] = Answered(call[r], Answer(201, ""))]
    /\ UNCHANGED <<users, req, now, uniqueIds, ratings, blob, client>>

\* UPDATE surveys SET description WHERE id = path RETURNING ...
UpdateSurvey(r) ==
    /\ call[r].pc = "statement"
    /\ call[r].op = "update"
    /\ LET id == CastUuid(JsStr(call[r].path))
       IN  IF ~id.ok
           THEN /\ call' = [call EXCEPT ![r] = Failed(call[r], "rejected")]
                /\ UNCHANGED surveys
           ELSE IF id.id \notin SurveyIds(surveys)
           THEN /\ call' = [call EXCEPT ![r] =
                              Answered(call[r], Answer(404, "Survey not found"))]
                /\ UNCHANGED surveys
           ELSE /\ surveys' = {IF x.id = id.id
                                THEN [x EXCEPT !.description =
                                                 Trim(call[r].body.description.s)]
                                ELSE x : x \in surveys}
                /\ call' = [call EXCEPT ![r] = [call[r] EXCEPT !.pc = "second"]]
    /\ UNCHANGED <<users, req, now, uniqueIds, ratings, blob, client>>

\* the SELECT with the statistics after an update
Refetch(r) ==
    /\ call[r].pc = "second"
    /\ call[r].op = "update"
    /\ call' = [call EXCEPT ![r] = Answered(call[r], Answer(200, ""))]
    /\ UNCHANGED <<users, req, now, uniqueIds, surveys, ratings, blob, client>>

\* DELETE FROM ratings WHERE survey_id = path
DeleteRatings(r) ==
    /\ call[r].pc = "statement"
    /\ call[r].op = "delete"
    /\ LET id == CastUuid(JsStr(call[r].path))
       IN  IF ~id.ok
           THEN /\ call' = [call EXCEPT ![r] = Failed(call[r], "rejected")]
                /\ UNCHANGED ratings
           ELSE /\ ratings' = {x \in ratings : x.survey_id # id.id}
                /\ call' = [call EXCEPT ![r] = [call[r] EXCEPT !.pc = "second"]]
    /\ UNCHANGED <<users, req, now, uniqueIds, surveys, blob, client>>

\* DELETE FROM surveys WHERE id = path RETURNING id; the store rejects it
\* while a rating references the survey
DeleteSurvey(r) ==
    /\ call[r].pc = "second"
    /\ call[r].op = "delete"
    /\ LET id == CastUuid(JsStr(call[r].path)).id
       IN  IF \E x \in ratings : x.survey_id = id
           THEN /\ call' = [call EXCEPT ![r] = Failed(call[r], "rejected")]
                /\ UNCHANGED surveys
           ELSE IF id \notin SurveyIds(surveys)
           THEN /\ call' = [call EXCEPT ![r] =
                              Answered(call[r], Answer(404, "Survey not found"))]
                /\ UNCHANGED surveys
           ELSE /\ surveys' = {x \in surveys : x.id # id}
                /\ call' = [call EXCEPT ![r] = Answered(call[r], Answer(200, ""))]
    /\ UNCHANGED <<users, req, now, uniqueIds, ratings, blob, client>>

-----------------------------------------------------------------------------
(* GET /api/me *)

\* an identity endpoint that answers like requireAuth
MeResponse_AsGuard(auth) ==
    IF auth.user = NullUser \/ auth.dbUser = NullRow
    THEN [answer |-> unauthorizedResponse(IF auth.error # "" THEN auth.error
                                          ELSE "Authentication required"),
          data |-> NoData]
    ELSE [answer |-> Answer(200, ""),
          data |-> MeData(TRUE, [auth.dbUser EXCEPT !.netlify_id = 0, !.created_at = 0])]

\* !auth.user || !auth.dbUser: 200 {authenticated: false}; otherwise 200
\* with id, email and role of the stored row
MeResponse(auth) ==
    IF auth.user = NullUser \/ auth.dbUser = NullRow
    THEN [answer |-> Answer(200, ""), data |-> NoData]
    ELSE [answer |-> Answer(200, ""),
          data |-> MeData(TRUE, [auth.dbUser EXCEPT !.netlify_id = 0, !.created_at = 0])]

Methods == {"GET", "POST", "OPTIONS"}

\* the handler of /api/me is entered: OPTIONS and other methods are answered
\* at once, GET calls extractUser
MeRequest(r, method, header) ==
    /\ Enters(r)
    /\ LET c == [IdleCall EXCEPT !.op = "me", !.header = header]
       IN  IF method = "GET"
           THEN /\ req' = [req EXCEPT ![r] = Entered(r, "extractUser", header)]
                /\ call' = [call EXCEPT ![r] = [c EXCEPT !.pc = "guard"]]
           ELSE /\ call' = [call EXCEPT ![r] =
                              Answered(c, IF method = "OPTIONS" THEN Answer(204, "")
                                          ELSE Answer(405, "Method not allowed"))]
                /\ UNCHANGED req
    /\ UNCHANGED <<users, now, uniqueIds, surveys, ratings, blob, client>>

\* extractUser has returned to the handler of /api/me
MeReturns(r) ==
    /\ call[r].pc = "guard"
    /\ call[r].op = "me"
    /\ req[r].pc = "done"
    /\ LET m == MeResponse(req[r].auth)
       IN  call' = [call EXCEPT ![r] =
                      [Answered(call[r], m.answer) EXCEPT !.data = m.data]]
    /\ UNCHANGED <<users, req, now, uniqueIds, surveys, ratings, blob, client>>

\* One request to /api/me with any of the headers.
NextMe ==
    \/ \E m \in Methods, h \in Headers : MeRequest(1, m, h)
    \/ LookupReturns(1)
    \/ InsertReturns(1)
    \/ StoreFails(1)
    \/ MeReturns(1)
    \/ Tick

SpecMe == Init /\ [][NextMe]_vars

-----------------------------------------------------------------------------
(* GET /api/surveys, /api/surveys/:id, /api/ratings and /api/ratings/my *)

ReadOps == {"listSurveys", "getSurvey", "getRatings", "my"}

\* GET with a path that holds no valid id is the list
ReadRoute(op, path) ==
    IF op = "getSurvey" /\ ~IsValidId(path) THEN "listSurveys" ELSE op

\* the routes that read url.searchParams.get("surveyId")
TakesParameter(op) == op \in {"getRatings", "my"}

\* read routes that all identify the caller
ReachesExtractUser_All(op) == TRUE

\* of the read routes only /api/ratings/my calls extractUser
ReachesExtractUser(op) == op = "my"

\* a read handler is entered; id is the id in the path or the surveyId
\* parameter, empty if there is none
ReadRequest(r, op, id, header) ==
    /\ Enters(r)
    /\ LET c == [IdleCall EXCEPT !.op = ReadRoute(op, id), !.path = id,
                                 !.header = header]
       IN  IF TakesParameter(c.op) /\ id = <<>>
           THEN /\ call' = [call EXCEPT ![r] =
                              Answered(c, Answer(400, "surveyId query parameter is required"))]
                /\ UNCHANGED req
           ELSE IF ReachesExtractUser(c.op)
           THEN /\ req' = [req EXCEPT ![r] = Entered(r, "extractUser", header)]
                /\ call' = [call EXCEPT ![r] = [c EXCEPT !.pc = "guard"]]
           ELSE /\ call' = [call EXCEPT ![r] = [c EXCEPT !.pc = "statement"]]
                /\ UNCHANGED req
    /\ UNCHANGED <<users, now, uniqueIds, surveys, ratings, blob, client>>

\* extractUser has returned to GET /api/ratings/my: no user, no rating
MyReturns(r) ==
    /\ call[r].pc = "guard"
    /\ call[r].op = "my"
    /\ req[r].pc = "done"
    /\ call' = [call EXCEPT ![r] =
                  IF req[r].auth.user = NullUser \/ req[r].auth.dbUser = NullRow
                  THEN Answered(call[r], Answer(200, ""))
                  ELSE [call[r] EXCEPT !.pc = "statement"]]
    /\ UNCHANGED <<users, req, now, uniqueIds, surveys, ratings, blob, client>>

\* the SELECT of a read handler returns
ReadReturns(r) ==
    /\ call[r].pc = "statement"
    /\ call[r].op \in ReadOps
    /\ LET id == CastUuid(JsStr(call[r].path))
       IN  call' = [call EXCEPT ![r] =
                      IF call[r].op = "listSurveys"
                      THEN Answered(call[r], Answer(200, ""))
                      ELSE IF ~id.ok THEN Failed(call[r], "rejected")
                      ELSE IF call[r].op = "getSurvey" /\ id.id \notin SurveyIds(surveys)
                      THEN Answered(call[r], Answer(404, "Survey not found"))
                      ELSE Answered(call[r], Answer(200, ""))]
    /\ UNCHANGED <<users, req, now, uniqueIds, surveys, ratings, blob, client>>

-----------------------------------------------------------------------------
(* /api/ratings backed by the blob store *)

MAX_RATINGS == 100

\* ratings.slice(0, n)
SliceTo(list, n) == SubSeq(list, 1, IF Len(list) < n THEN Len(list) ELSE n)

\* ratings.unshift(newRating)
Unshift(list, x) == <<x>> \o list

\* ratings.slice(0, MAX_RATINGS), the argument of saveRatings
Saved(list) == SliceTo(list, MAX_RATINGS)

\* the rating a POST builds; crypto.randomUUID() differs from request to
\* request and is written as the number of the request
NewRating(r) ==
    [id |-> r, score |-> ToNumber(call[r].body.score),
     timestamp |-> call[r].timestamp]

BlobMethods == Methods \cup {"DELETE"}

\* the POST branch up to its first await of the store
BlobChecks(c) ==
    IF c.body.json # "object" THEN Failed(c, "body")
    ELSE IF ScoreRejected(ToNumber(c.body.score))
    THEN Answered(c, Answer(400, "Score must be between 1 and 10"))
    ELSE [c EXCEPT !.pc = "read", !.timestamp = now]

\* the handler is entered
BlobRequest(r, method, body) ==
    /\ Enters(r)
    /\ call' = [call EXCEPT ![r] =
                  IF method = "OPTIONS"
                  THEN Answered([IdleCall EXCEPT !.op = "blobOptions"], Answer(204, ""))
                  ELSE IF method = "GET"
                  THEN [IdleCall EXCEPT !.op = "blobGet", !.pc = "read"]
                  ELSE IF method = "POST"
                  THEN BlobChecks([IdleCall EXCEPT !.op = "blobPost", !.body = body])
                  ELSE Answered([IdleCall EXCEPT !.op = "blobOther"],
                                Answer(405, "Method not allowed"))]
    /\ UNCHANGED <<users, req, now, uniqueIds, surveys, ratings, blob, client>>

\* await getRatings(context) returns the stored list
getRatings(r) ==
    /\ call[r].pc = "read"
    /\ call' = [call EXCEPT ![r] =
                  IF call[r].op = "blobGet"
                  THEN Answered([call[r] EXCEPT !.list = blob], Answer(200, ""))
                  ELSE [call[r] EXCEPT !.list = Unshift(blob, NewRating(r)),
                                       !.pc = "write"]]
    /\ UNCHANGED <<users, req, now, uniqueIds, surveys, ratings, blob, client>>

\* await saveRatings(context, ratings.slice(0, MAX_RATINGS)) returns
saveRatings(r) ==
    /\ call[r].pc = "write"
    /\ blob' = Saved(call[r].list)
    /\ call' = [call EXCEPT ![r] = Answered(call[r], Answer(201, ""))]
    /\ UNCHANGED <<users, req, now, uniqueIds, surveys, ratings, client>>

-----------------------------------------------------------------------------
(* The client: AuthProvider and AuthModal.  The page is loaded without an   *)
(* auth hash in its URL; the one account that signs in is subject 1.         *)

server == <<users, req, now, uniqueIds, surveys, ratings, call, blob>>

\* the rows /api/me can answer for subject 1
MeRows ==
    {[id |-> 1, netlify_id |-> 1, email |-> 1, role |-> ro, created_at |-> 1000] :
        ro \in {"admin", "user"}}

\* how authFetch("/api/me") followed by response.json() can settle: with a
\* body, or rejected
FetchOutcomes ==
    {[ok |-> TRUE, data |-> d] : d \in {MeData(TRUE, u) : u \in MeRows} \cup {NoData}}
        \cup {[ok |-> FALSE, data |-> NoData]}

\* the value fetchDbUser hands to setDbUser
FetchedDbUser(o) ==
    IF o.ok /\ o.data.authenticated /\ o.data.user # NullRow
    THEN o.data.user
    ELSE NullRow

isAuthenticated(p) == p.user # 0 /\ p.dbUser # NullRow

isAdmin(p) == p.dbUser.role = "admin"

\* isLoading stays true whatever getCurrentUser() returns
MountLoading_Always(session) == TRUE

\* isLoading after the mount effect: set false at once without a current user
MountLoading(session) == session # 0

\* the effects of AuthModal whose dependencies a commit changed
ChangedEffects(p, m, p2, m2) ==
    (IF p2.isModalOpen # p.isModalOpen \/ p2.modalMode # p.modalMode
     THEN {"open"} ELSE {})
        \cup (IF m2.mode # m.mode THEN {"mode"} ELSE {})

\* the state updates of one event are committed in one render
Commit(p2, m2) ==
    /\ provider' = p2
    /\ modal' = [m2 EXCEPT !.effects = @ \cup ChangedEffects(provider, modal, p2, m2)]
    /\ UNCHANGED <<server, page>>

\* the user can act: the provider is mounted and the effects of the last
\* commit have run
Interactive == provider.mounted /\ modal.effects = {}

\* the mount effect of AuthProvider
Mount ==
    /\ ~provider.mounted
    /\ Commit([provider EXCEPT !.mounted = TRUE,
                               !.user = provider.session,
                               !.fetch.mount = provider.session # 0,
                               !.isLoading = MountLoading(provider.session)],
              modal)

\* openLogin: the button of AuthButton, or the rate button of the survey page
\* while not authenticated
openLogin ==
    /\ Interactive
    /\ ~provider.isModalOpen
    /\ ~isAuthenticated(provider)
    /\ Commit([provider EXCEPT !.modalMode = "login", !.isModalOpen = TRUE],
              [modal EXCEPT !.submitted = ""])

Closed(p) == [p EXCEPT !.isModalOpen = FALSE, !.modalMode = "login"]

\* closeModal: the X button or a click on the backdrop
closeModal ==
    /\ Interactive
    /\ provider.isModalOpen
    /\ Commit(Closed(provider), [modal EXCEPT !.submitted = ""])

\* the links of the modal that call setMode
ModeLinks ==
    {<<"login", "signup">>, <<"login", "recovery">>, <<"signup", "login">>,
     <<"recovery", "login">>}

setMode(mode) ==
    /\ Interactive
    /\ provider.isModalOpen
    /\ <<modal.mode, mode>> \in ModeLinks
    /\ Commit(provider, [modal EXCEPT !.mode = mode, !.submitted = ""])

\* what the password fields hold at a submit
Passwords == {"ok", "differ", "short"}

\* handleSubmit up to its first await
handleSubmit(password) ==
    /\ Interactive
    /\ provider.isModalOpen
    /\ ~modal.isLoading
    /\ LET m == [modal EXCEPT !.error = "", !.success = "", !.isLoading = TRUE,
                              !.submitted = ""]
       IN  Commit(provider,
                  IF modal.mode = "login" THEN [m EXCEPT !.pc = "authLogin"]
                  ELSE IF modal.mode = "recovery" THEN [m EXCEPT !.pc = "recovery"]
                  ELSE IF password = "differ"
                  THEN [m EXCEPT !.error = "PasswordsDiffer", !.isLoading = FALSE]
                  ELSE IF password = "short"
                  THEN [m EXCEPT !.error = "PasswordTooShort", !.isLoading = FALSE]
                  ELSE [m EXCEPT !.pc = "signup"])

\* handleLogin: authLogin has resolved, fetchDbUser is called
authLoginResolves ==
    /\ modal.pc = "authLogin"
    /\ Commit([provider EXCEPT !.session = 1, !.user = 1, !.fetch.login = TRUE],
              [modal EXCEPT !.pc = "fetchDbUser"])

\* the call handleSubmit awaits has rejected: catch, finally
SubmitRejects ==
    /\ modal.pc \in {"authLogin", "signup", "recovery"}
    /\ Commit(provider,
              [modal EXCEPT !.pc = "idle", !.error = "Failed", !.isLoading = FALSE])

\* onSignup has resolved: setSuccess, setMode("login"), finally
signupResolves ==
    /\ modal.pc = "signup"
    /\ Commit(provider,
              [modal EXCEPT !.pc = "idle", !.success = "ConfirmationSent",
                            !.mode = "login", !.isLoading = FALSE,
                            !.submitted = "signup"])

\* onRecovery has resolved: setSuccess, finally
recoveryResolves ==
    /\ modal.pc = "recovery"
    /\ Commit(provider,
              [modal EXCEPT !.pc = "idle", !.success = "RecoverySent",
                            !.isLoading = FALSE, !.submitted = "recovery"])

\* fetchDbUser settles.  The one of the mount effect is followed by
\* setIsLoading(false); the one of handleLogin by the rest of handleSubmit:
\* onClose(), finally.
fetchDbUserSettles(origin, o) ==
    /\ provider.fetch[origin]
    /\ LET p == [provider EXCEPT !.dbUser = FetchedDbUser(o),
                                 !.fetch[origin] = FALSE]
       IN  IF origin = "mount"
           THEN Commit([p EXCEPT !.isLoading = FALSE], modal)
           ELSE Commit(Closed(p),
                       [modal EXCEPT !.pc = "idle", !.isLoading = FALSE])

\* the effects of AuthModal run: the one on [isOpen, initialMode], then the
\* one on [mode]
RunEffects ==
    /\ modal.effects # {}
    /\ LET m1 == IF "open" \in modal.effects /\ provider.isModalOpen
                 THEN [modal EXCEPT !.error = "", !.success = "",
                                    !.mode = provider.modalMode]
                 ELSE modal
           m2 == IF "mode" \in modal.effects
                 THEN [m1 EXCEPT !.error = "", !.success = ""]
                 ELSE m1
       IN  modal' = [m2 EXCEPT !.effects = ChangedEffects(provider, modal, provider, m2)]
    /\ UNCHANGED <<server, provider, page>>

\* the logout button, which AuthButton shows to a loaded, signed-in user
logout ==
    /\ Interactive
    /\ ~provider.isModalOpen
    /\ ~provider.isLoading
    /\ isAuthenticated(provider)
    /\ provider.logout = "idle"
    /\ Commit([provider EXCEPT !.logout = "authLogout"], modal)

\* await authLogout() settles; the setters run only if it resolved
authLogoutSettles(ok) ==
    /\ provider.logout = "authLogout"
    /\ Commit(IF ok
              THEN [provider EXCEPT !.logout = "idle", !.session = 0, !.user = 0,
                                    !.dbUser = NullRow]
              ELSE [provider EXCEPT !.logout = "idle"],
              modal)

InitAuth ==
    /\ InitGate
    /\ surveys = SeedSurveys
    /\ ratings = {}
    /\ call = [r \in Reqs |-> IdleCall]
    /\ blob = <<>>
    /\ provider \in {[Unmounted EXCEPT !.session = s] : s \in {0, 1}}
    /\ modal = ClosedModal
    /\ page = UnloadedPage

NextAuth ==
    \/ Mount
    \/ openLogin
    \/ closeModal
    \/ \E m \in {"login", "signup", "recovery"} : setMode(m)
    \/ \E pw \in Passwords : handleSubmit(pw)
    \/ authLoginResolves
    \/ SubmitRejects
    \/ signupResolves
    \/ recoveryResolves
    \/ \E origin \in {"mount", "login"}, o \in FetchOutcomes :
          fetchDbUserSettles(origin, o)
    \/ RunEffects
    \/ logout
    \/ \E ok \in BOOLEAN : authLogoutSettles(ok)

SpecAuth == InitAuth /\ [][NextAuth]_vars

\* a request the browser has sent gets its answer or fails
SpecAuthFair ==
    SpecAuth /\ WF_vars(\E o \in FetchOutcomes : fetchDbUserSettles("mount", o))

-----------------------------------------------------------------------------
(* The client: SurveyPage of survey "a", next to the ratings handler *)

PageSurvey == <<"a">>

\* the length handleRate cuts the list to
ListLimit == 100

\* a rating as the handlers return it
Returned(row) == [id |-> row.id, score |-> row.score, timestamp |-> row.timestamp]

\* a row comes before another in ORDER BY timestamp DESC (ties by id)
Before(x, y) ==
    x.timestamp > y.timestamp \/ (x.timestamp = y.timestamp /\ x.id > y.id)

RECURSIVE Ordered(_)
Ordered(rows) ==
    IF rows = {} THEN <<>>
    ELSE LET first == CHOOSE x \in rows : \A y \in rows \ {x} : Before(x, y)
         IN  <<Returned(first)>> \o Ordered(rows \ {first})

\* SELECT ... WHERE survey_id = id ORDER BY timestamp DESC LIMIT MAX_RATINGS
Listing(id) == SliceTo(Ordered({x \in ratings : x.survey_id = id}), MAX_RATINGS)

\* SELECT ... WHERE survey_id = id AND user_id = user: the row or null
MyRatingOf(id, user) ==
    LET mine == {x \in ratings : x.survey_id = id /\ x.user_id = user}
    IN  IF mine = {} THEN NoRating ELSE Returned(CHOOSE x \in mine : TRUE)

\* prev.map((r) => (r.id === newRating.id ? newRating : r))
Replaced(list, rating) ==
    [i \in DOMAIN list |-> IF list[i].id = rating.id THEN rating ELSE list[i]]

\* the list handleRate sets: by the myRating it closed over
Rated(list, rating, hadRating) ==
    IF hadRating THEN Replaced(list, rating)
    ELSE SliceTo(Unshift(list, rating), ListLimit)

\* the two effects of the page run: Promise.all([fetchSurvey, fetchRatings])
\* is started, and fetchMyRating if the user is authenticated
PageLoads ==
    /\ ~page.loaded
    /\ page' = [page EXCEPT !.loaded = TRUE,
                            !.load.pc = "sent",
                            !.my.pc = IF isAuthenticated(provider) THEN "sent" ELSE "none"]
    /\ UNCHANGED <<server, provider, modal>>

\* the server answers GET /api/surveys/a and GET /api/ratings?surveyId=a
LoadServed(ok) ==
    /\ page.load.pc = "sent"
    /\ page' = [page EXCEPT !.load.pc = "served", !.load.ok = ok,
                            !.load.list = IF ok THEN Listing(PageSurvey) ELSE <<>>]
    /\ UNCHANGED <<server, provider, modal>>

\* then / catch / finally of the load
LoadArrives ==
    /\ page.load.pc = "served"
    /\ page' = [page EXCEPT !.load = IdleFetch,
                            !.isLoading = FALSE,
                            !.ratings = IF page.load.ok THEN page.load.list ELSE @,
                            !.error = IF page.load.ok THEN @ ELSE "Failed to fetch"]
    /\ UNCHANGED <<server, provider, modal>>

\* the server answers GET /api/ratings/my?surveyId=a
MyServed(ok) ==
    /\ page.my.pc = "sent"
    /\ page' = [page EXCEPT !.my.pc = "served", !.my.ok = ok,
                            !.my.rating = IF ok THEN MyRatingOf(PageSurvey, provider.dbUser.id)
                                          ELSE NoRating]
    /\ UNCHANGED <<server, provider, modal>>

\* then / catch of fetchMyRating
MyArrives ==
    /\ page.my.pc = "served"
    /\ page' = [page EXCEPT !.my = IdleFetch,
                            !.myRating = IF page.my.ok THEN page.my.rating ELSE @]
    /\ UNCHANGED <<server, provider, modal>>

\* the rate button of an authenticated user: handleRate up to its await
handleRate(score) ==
    /\ Interactive
    /\ ~provider.isModalOpen
    /\ page.loaded
    /\ ~page.isLoading
    /\ ~page.isSaving
    /\ isAuthenticated(provider)
    /\ page' = [page EXCEPT !.isSaving = TRUE, !.error = "",
                            !.hadRating = page.myRating # NoRating,
                            !.rate.pc = "sent",
                            !.rate.rating = [NoRating EXCEPT !.score = Num(score)]]
    /\ UNCHANGED <<server, provider, modal>>

\* the server answers POST /api/ratings: the upsert and its RETURNING row,
\* or an error answer
RateServed(ok) ==
    /\ page.rate.pc = "sent"
    /\ IF ok
       THEN LET row == [id |-> Cardinality(ratings) + 1, survey_id |-> PageSurvey,
                        score |-> page.rate.rating.score, timestamp |-> now,
                        user_id |-> provider.dbUser.id]
            IN  /\ ratings' = Upserted(row)
                /\ page' = [page EXCEPT
                              !.rate.pc = "served", !.rate.ok = TRUE,
                              !.rate.rating =
                                  Returned(CHOOSE x \in Upserted(row) :
                                              /\ x.survey_id = row.survey_id
                                              /\ x.user_id = row.user_id)]
       ELSE /\ page' = [page EXCEPT !.rate.pc = "served", !.rate.ok = FALSE]
            /\ UNCHANGED ratings
    /\ UNCHANGED <<users, req, now, uniqueIds, surveys, call, blob, provider, modal>>

\* handleRate after await postRating
RateArrives ==
    /\ page.rate.pc = "served"
    /\ page' = IF page.rate.ok
               THEN [page EXCEPT !.rate = IdleFetch, !.isSaving = FALSE,
                                 !.myRating = page.rate.rating,
                                 !.ratings = Rated(@, page.rate.rating, page.hadRating)]
               ELSE [page EXCEPT !.rate = IdleFetch, !.isSaving = FALSE,
                                 !.error = "Failed to save"]
    /\ UNCHANGED <<server, provider, modal>>

\* AuthProvider of a user who is signed in and has a row, and of a visitor
SignedIn ==
    [Unmounted EXCEPT !.mounted = TRUE, !.session = 1, !.user = 1,
                      !.isLoading = FALSE,
                      !.dbUser = [id |-> 1, netlify_id |-> 1, email |-> 1,
                                  role |-> "user", created_at |-> 1000]]

SignedOut == [Unmounted EXCEPT !.mounted = TRUE, !.isLoading = FALSE]

\* n ratings of the survey by others, and one of user 1 if mine
StoredRatings(n, mine) ==
    {[id |-> 1000 + i, survey_id |-> PageSurvey, score |-> Num(5),
      timestamp |-> 1000, user_id |-> NullId] : i \in 1..n}
        \cup (IF mine
              THEN {[id |-> 1, survey_id |-> PageSurvey, score |-> Num(3),
                     timestamp |-> 1000, user_id |-> 1]}
              ELSE {})

InitPage ==
    /\ InitGate
    /\ surveys = SeedSurveys
    /\ call = [r \in Reqs |-> IdleCall]
    /\ blob = <<>>
    /\ ratings \in {StoredRatings(0, FALSE), StoredRatings(0, TRUE),
                    StoredRatings(MAX_RATINGS - 1, TRUE),
                    StoredRatings(MAX_RATINGS, FALSE)}
    /\ provider \in {SignedIn, SignedOut}
    /\ modal = ClosedModal
    /\ page = UnloadedPage

NextPage ==
    \/ PageLoads
    \/ \E ok \in BOOLEAN : LoadServed(ok)
    \/ LoadArrives
    \/ \E ok \in BOOLEAN : MyServed(ok)
    \/ MyArrives
    \/ \E score \in {3, 7} : handleRate(score)
    \/ \E ok \in BOOLEAN : RateServed(ok)
    \/ RateArrives
    \/ openLogin

SpecPage == InitPage /\ [][NextPage]_vars

-----------------------------------------------------------------------------
(* The handlers' requests *)

\* body.score of the requests
ScoreValues ==
    {Undefined, JsNull, JsTrue, JsNum(0 - 1), JsNum(0), JsNum(1), JsNum(10),
     JsNum(11), JsStr(<<"5">>), JsStr(<<" ", "7">>), JsStr(<<"1", "1">>),
     JsStr(<<>>), JsStr(<<"x">>), JsStr(<<"-", "3">>)}

\* body.surveyId of the requests: absent, empty, a survey, no survey, no uuid
SurveyIdValues ==
    {Undefined, JsStr(<<>>), JsNum(0), JsStr(<<"a">>), JsStr(<<"c">>),
     JsStr(<<"z">>), JsNum(1)}

RatingBodies ==
    {Body("text", Undefined, Undefined, Undefined),
     Body("null", Undefined, Undefined, Undefined)}
        \cup {Body("object", i, v, Undefined) :
                i \in SurveyIdValues, v \in ScoreValues}

\* no credentials, the credentials of subject 1, a token of two segments
RateHeaders ==
    {[present |-> FALSE, value |-> <<>>],
     Bearer(Tok(<<"hh">>, Seg(<<"S1", "M1">>), <<"ss">>)),
     Bearer(<<"hh", ".">> \o Seg(<<"S1", "M1">>))}

\* a rating of subject 1's stored row for survey a, left by an earlier POST
SeedRatings ==
    {{},
     {[id |-> 1, survey_id |-> <<"a">>, score |-> Num(3), timestamp |-> 1000,
       user_id |-> 1]}}

InitRatings ==
    /\ blob = <<>>
    /\ InitClient
    /\ InitGate
    /\ surveys = SeedSurveys
    /\ ratings \in {t \in SeedRatings : \A x \in t : \E u \in users : u.id = x.user_id}
    /\ call = [r \in Reqs |-> IdleCall]

\* One POST /api/ratings, to the handler with the gate or to the one
\* without, with any of the bodies.
NextRatings ==
    \/ \E h \in RateHeaders, b \in RatingBodies : RatePost(1, h, b)
    \/ \E b \in RatingBodies : AnonPost(1, b)
    \/ LookupReturns(1)
    \/ InsertReturns(1)
    \/ StoreFails(1)
    \/ Resume(1)
    \/ Upsert(1)
    \/ AnonInsert(1)
    \/ StatementFails(1)
    \/ Tick

SpecRatings == InitRatings /\ [][NextRatings]_vars

\* two scores for survey a, one for survey b
RateBodies ==
    {Body("object", JsStr(<<"a">>), JsNum(3), Undefined),
     Body("object", JsStr(<<"a">>), JsNum(7), Undefined),
     Body("object", JsStr(<<"b">>), JsNum(7), Undefined)}

\* Overlapping POSTs of subject 1 to the handler with the gate, within one
\* tick of the clock (the token carries no exp).
NextRate ==
    \/ \E r \in Reqs, b \in RateBodies :
          RatePost(r, Bearer(Tok(<<"hh">>, Seg(<<"S1", "M1">>), <<"ss">>)), b)
    \/ \E r \in Reqs : LookupReturns(r)
    \/ \E r \in Reqs : InsertReturns(r)
    \/ \E r \in Reqs : InsertConflicts(r)
    \/ \E r \in Reqs : StoreFails(r)
    \/ \E r \in Reqs : Resume(r)
    \/ \E r \in Reqs : Upsert(r)
    \/ \E r \in Reqs : StatementFails(r)

SpecRate == Init /\ [][NextRate]_vars

\* the path of PUT and DELETE names a survey, no survey, or holds no id
SurveyPaths == {<<"a">>, <<"c">>, <<"z">>, <<"-">>}

\* body.description of the requests
DescriptionValues ==
    {Undefined, JsStr(<<" ">>), JsStr(<<"N">>), JsStr(<<" ", "N", " ">>), JsNum(5)}

SurveyBodies ==
    {Body("text", Undefined, Undefined, Undefined),
     Body("null", Undefined, Undefined, Undefined)}
        \cup {Body("object", Undefined, Undefined, d) : d \in DescriptionValues}

\* what a client sends on the three routes
SurveyInputs ==
    {<<"create", <<>>, b>> : b \in SurveyBodies}
        \cup {<<"update", p, b>> : p \in SurveyPaths, b \in SurveyBodies}
        \cup {<<"delete", p, NoBody>> : p \in SurveyPaths}

\* no credentials, subject 1 (an admin if the table says so), subject 2 who
\* claims the admin role in the token
AdminHeaders ==
    {[present |-> FALSE, value |-> <<>>],
     Bearer(Tok(<<"hh">>, Seg(<<"S1", "M1">>), <<"ss">>)),
     Bearer(Tok(<<"hh">>, Seg(<<"S_2", "M1", "Ra">>), <<"ss">>))}

InitSurveys ==
    /\ blob = <<>>
    /\ InitClient
    /\ InitGate
    /\ surveys = SeedSurveys
    /\ ratings = {[id |-> 1, survey_id |-> <<"a">>, score |-> Num(3),
                   timestamp |-> 1000, user_id |-> NullId]}
    /\ call = [r \in Reqs |-> IdleCall]

\* One request to an admin route of the surveys handler.
NextSurveys ==
    \/ \E i \in SurveyInputs, h \in AdminHeaders :
          SurveyRequest(1, i[1], i[2], h, i[3])
    \/ LookupReturns(1)
    \/ InsertReturns(1)
    \/ StoreFails(1)
    \/ Resume(1)
    \/ InsertSurvey(1)
    \/ UpdateSurvey(1)
    \/ Refetch(1)
    \/ DeleteRatings(1)
    \/ DeleteSurvey(1)
    \/ StatementFails(1)
    \/ Tick

SpecSurveys == InitSurveys /\ [][NextSurveys]_vars

\* the token of subject 1, without exp
SubjectOneHeader == Bearer(Tok(<<"hh">>, Seg(<<"S1", "M1">>), <<"ss">>))

\* DELETE /api/surveys/:id in one request while subject 1 posts a rating in
\* another.
NextDelete ==
    \/ \E p \in SurveyPaths, h \in AdminHeaders :
          SurveyRequest(1, "delete", p, h, NoBody)
    \/ \E b \in RateBodies : RatePost(2, SubjectOneHeader, b)
    \/ \E r \in {1, 2} :
          \/ LookupReturns(r)
          \/ InsertReturns(r)
          \/ InsertConflicts(r)
          \/ StoreFails(r)
          \/ Resume(r)
          \/ StatementFails(r)
    \/ DeleteRatings(1)
    \/ DeleteSurvey(1)
    \/ Upsert(2)

SpecDelete == InitSurveys /\ [][NextDelete]_vars

\* a stored list of n ratings
StoredList(n) == [i \in 1..n |-> [id |-> 1000 + i, score |-> Num(5), timestamp |-> 1000]]

BlobSeeds == {StoredList(0), StoredList(MAX_RATINGS - 1), StoredList(MAX_RATINGS)}

BlobBodies ==
    {Body("text", Undefined, Undefined, Undefined),
     Body("object", Undefined, JsNum(0), Undefined),
     Body("object", Undefined, JsStr(<<" ", "7">>), Undefined)}

InitBlob ==
    /\ InitGate
    /\ InitClient
    /\ surveys = SeedSurveys
    /\ ratings = {}
    /\ call = [r \in Reqs |-> IdleCall]
    /\ blob \in BlobSeeds

\* Overlapping requests to the blob-backed handler.
NextBlob ==
    \/ \E r \in Reqs, m \in BlobMethods, b \in BlobBodies : BlobRequest(r, m, b)
    \/ \E r \in Reqs : getRatings(r)
    \/ \E r \in Reqs : saveRatings(r)
    \/ \E r \in Reqs : StatementFails(r)

SpecBlob == InitBlob /\ [][NextBlob]_vars

\* what a client sends on the read routes
ReadInputs ==
    {<<"listSurveys", <<>>>>}
        \cup {<<"getSurvey", p>> : p \in SurveyPaths}
        \cup {<<op, p>> : op \in {"getRatings", "my"}, p \in {<<>>, <<"a">>, <<"z">>}}

\* A request to a read route or to /api/me, next to one that calls a guard.
NextReads ==
    \/ \E i \in ReadInputs, h \in AdminHeaders : ReadRequest(1, i[1], i[2], h)
    \/ \E h \in AdminHeaders : MeRequest(1, "GET", h)
    \/ \E g \in Guards, h \in AdminHeaders : Begin(2, g, h)
    \/ \E r \in {1, 2} :
          \/ LookupReturns(r)
          \/ InsertReturns(r)
          \/ InsertConflicts(r)
          \/ StoreFails(r)
    \/ MeReturns(1)
    \/ MyReturns(1)
    \/ ReadReturns(1)
    \/ StatementFails(1)
    \/ Tick

SpecReads == Init /\ [][NextReads]_vars

-----------------------------------------------------------------------------
(* What a request carries, read off its header independently of Decode *)

Begun(r) == req[r].pc # "idle"

HasBearerPrefix(h) ==
    /\ h.present
    /\ Len(h.value) >= 7
    /\ \A i \in 1..7 : h.value[i] = BearerPrefix[i]

TokenOf(h) == [i \in 1..(Len(h.value) - 7) |-> h.value[i + 7]]

DotsOf(s) == {i \in 1..Len(s) : s[i] = "."}

\* the characters between the first and the second dot
MiddleOf(s) ==
    LET d1 == CHOOSE d \in DotsOf(s) : \A e \in DotsOf(s) : d <= e
        d2 == CHOOSE d \in DotsOf(s) \ {d1} : \A e \in DotsOf(s) \ {d1} : d <= e
    IN  [i \in 1..(d2 - d1 - 1) |-> s[d1 + i]]

ThreeSegments(h) == HasBearerPrefix(h) /\ Cardinality(DotsOf(TokenOf(h))) = 2

ClaimsOf(h) == JsonParse(Base64Decode(MiddleOf(TokenOf(h))))

\* a three-segment bearer token whose payload is a JSON object
WellFormed(h) ==
    /\ ThreeSegments(h)
    /\ ~ClaimsOf(h).throws
    /\ ~ClaimsOf(h).isNull

\* the request r starts in this step
Begins(r) == req[r].pc = "idle" /\ req'[r].pc # "idle"

Unauthorized(r, message) == req[r].response = [status |-> 401, error |-> message]

NoStoreOperation(r) == req[r].lookups = 0 /\ req[r].inserts = 0

-----------------------------------------------------------------------------
(* Claims *)

\* C1: a request with no Authorization header, or one that does not start
\* with "Bearer ", gets 401 "Authentication required" from requireAuth, and
\* neither the user lookup nor the user insert is issued.
C1_NoBearerIsAuthenticationRequired ==
    \A r \in Reqs :
        (Begun(r) /\ req[r].guard = "requireAuth" /\ ~HasBearerPrefix(req[r].header))
            => /\ Done(r)
               /\ Unauthorized(r, "Authentication required")
               /\ NoStoreOperation(r)

\* C1 witness: requireAuth has answered a request whose header is present
\* but carries another scheme.
C1_Witness ==
    \E r \in Reqs :
        /\ Done(r)
        /\ req[r].guard = "requireAuth"
        /\ req[r].header.present
        /\ StartsWith(req[r].header.value, BasicPrefix)
        /\ Unauthorized(r, "Authentication required")

\* C2: a bearer token that does not split on "." into exactly three segments
\* (the empty token included) gets 401 "Invalid token format" from
\* requireAuth, and no lookup or insert is issued.
C2_WrongSegmentCountIsInvalidFormat ==
    \A r \in Reqs :
        (/\ Begun(r)
         /\ req[r].guard = "requireAuth"
         /\ HasBearerPrefix(req[r].header)
         /\ Cardinality(DotsOf(TokenOf(req[r].header))) # 2)
            => /\ Done(r)
               /\ Unauthorized(r, "Invalid token format")
               /\ NoStoreOperation(r)

\* C2 witness: requireAuth has answered a request whose token is empty.
C2_Witness ==
    \E r \in Reqs :
        /\ Done(r)
        /\ req[r].guard = "requireAuth"
        /\ req[r].header.value = BearerPrefix
        /\ Unauthorized(r, "Invalid token format")

\* headers whose three-segment token has a middle segment that is no JSON:
\* truncated, empty, and bytes that are no JSON text
BadJsonHeaders ==
    {Bearer(Tok(<<"hh">>, p, <<"ss">>)) : p \in {<<"Lb", "S1", "M1">>, <<>>, <<"zz">>}}

C4_PastExpIsTokenExpired ==
    [][\A r \in Reqs :
        (/\ Begins(r)
         /\ req'[r].guard = "requireAuth"
         /\ WellFormed(req'[r].header)
         /\ ClaimsOf(req'[r].header).hasExp
         /\ ClaimsOf(req'[r].header).exp * MsPerSec < now)
            => /\ req'[r].pc = "done"
               /\ req'[r].response = [status |-> 401, error |-> "Token expired"]]_vars

\* C5: "Token expired" is answered only when exp is present and exp * 1000 is
\* strictly less than the time in ms; a well-formed token with no exp, or
\* with exp * 1000 equal to or greater than the time in ms, is not rejected
\* as expired and goes on to provisioning (the lookup is issued).
C5_ExpiredOnlyWhenStrictlyPast ==
    [][\A r \in Reqs :
        Begins(r) =>
            /\ req'[r].response.error = "Token expired"
                 => /\ WellFormed(req'[r].header)
                    /\ ClaimsOf(req'[r].header).hasExp
                    /\ ClaimsOf(req'[r].header).exp * MsPerSec < now
            /\ (/\ WellFormed(req'[r].header)
                /\ \/ ~ClaimsOf(req'[r].header).hasExp
                   \/ ClaimsOf(req'[r].header).exp * MsPerSec >= now)
                 => /\ req'[r].pc = "lookup"
                    /\ req'[r].lookups = 1
                    /\ req'[r].response.error # "Token expired"]_vars

\* C5 witness: a token whose exp * 1000 equals the time in ms has been taken
\* to provisioning (the clock only moves forward, so it was checked at this
\* very time).
C5_Witness ==
    \E r \in Reqs :
        /\ WellFormed(req[r].header)
        /\ ClaimsOf(req[r].header).hasExp
        /\ ClaimsOf(req[r].header).exp * MsPerSec = now
        /\ now = StartNow
        /\ req[r].lookups = 1

\* the subject a request that reached the lookup is evaluated for
SubjectOf(r) == req[r].netlifyUser.id

Provisioning(r) == req[r].lookups = 1

RowsOf(s) == {u \in users : u.netlify_id = s}

\* extractUser returned a user and a row
Authenticated(r) ==
    Done(r) /\ req[r].auth.user # NullUser /\ req[r].auth.dbUser # NullRow

\* no two guard evaluations overlap: each began after the earlier ones returned
Sequential ==
    \A q1, q2 \in Reqs : (Begun(q2) /\ q1 < q2) => q1 \in req[q2].after

\* the subject had no row when r began: none in the table the run started
\* with, none inserted by an earlier evaluation
NoRowBefore(r) ==
    /\ \A u \in RowsOf(SubjectOf(r)) : u.created_at >= StartNow
    /\ \A q \in Reqs :
         (q < r /\ Provisioning(q) /\ SubjectOf(q) = SubjectOf(r)) => ~Authenticated(q)

\* C6: sequential provisioning is idempotent.  With no two evaluations
\* overlapping, the first evaluation for a subject without a row issues
\* exactly one insert and returns the inserted row (role 'user'); a later
\* evaluation for the same subject issues no insert and returns the same
\* row, and the table holds that one row for the subject.
C6_SequentialProvisioningIdempotent ==
    Sequential =>
        \A r1 \in Reqs :
            (Provisioning(r1) /\ Done(r1) /\ req[r1].fault = "" /\ NoRowBefore(r1))
                => /\ req[r1].inserts = 1
                   /\ Authenticated(r1)
                   /\ req[r1].guard = "requireAuth" => req[r1].response = NoResponse
                   /\ req[r1].auth.dbUser.role = "user"
                   /\ req[r1].auth.dbUser.netlify_id = SubjectOf(r1)
                   /\ req[r1].auth.dbUser.email = req[r1].netlifyUser.email
                   /\ RowsOf(SubjectOf(r1)) = {req[r1].auth.dbUser}
                   /\ \A r2 \in Reqs :
                        (r1 < r2 /\ Provisioning(r2) /\ SubjectOf(r2) = SubjectOf(r1))
                            => /\ req[r2].inserts = 0
                               /\ (Done(r2) /\ req[r2].fault = "")
                                    => req[r2].auth.dbUser = req[r1].auth.dbUser

\* C6 witness: a first evaluation has inserted the subject's row and a
\* second one, begun after it returned, has returned the same row without
\* an insert.
C6_Witness ==
    /\ Sequential
    /\ \E r1, r2 \in Reqs :
         /\ r1 < r2
         /\ Authenticated(r1) /\ Authenticated(r2)
         /\ SubjectOf(r1) = SubjectOf(r2)
         /\ NoRowBefore(r1)
         /\ req[r1].inserts = 1
         /\ req[r2].inserts = 0
         /\ req[r2].auth.dbUser = req[r1].auth.dbUser

\* C7 as stated: in every reachable state the users table holds at most one
\* row per external identity id, whether or not the store keeps the id unique.
C7_OneRowPerIdentity ==
    \A u, v \in users : u.netlify_id = v.netlify_id => u = v

\* the evaluations for subject s whose insert was issued and has been
\* answered by the store (with a row or with a conflict)
Inserters(s) ==
    {r \in Reqs : /\ Done(r)
                  /\ req[r].inserts = 1
                  /\ SubjectOf(r) = s
                  /\ req[r].fault # "unavailable"}

\* C8: with the id unique in the store, when two (or more) first-time
\* evaluations for one subject all see no row in their lookup, exactly one
\* row is created and exactly one evaluation returns it; every other one
\* ends with 401 "Failed to verify token", with its one lookup and its one
\* insert (no retry) and without a row.
C8_ConflictingInsertIsFailedToVerify ==
    uniqueIds =>
        \A s \in {SubjectOf(r) : r \in Reqs} :
            Cardinality(Inserters(s)) >= 2
                => /\ Cardinality(RowsOf(s)) = 1
                   /\ Cardinality({r \in Inserters(s) : Authenticated(r)}) = 1
                   /\ \A r \in Inserters(s) :
                        \/ /\ Authenticated(r)
                           /\ RowsOf(s) = {req[r].auth.dbUser}
                        \/ /\ req[r].fault = "conflict"
                           /\ req[r].response =
                                [status |-> 401, error |-> "Failed to verify token"]
                           /\ req[r].auth.dbUser = NullRow
                           /\ req[r].lookups = 1
                           /\ req[r].inserts = 1

\* C8 witness: two evaluations for one subject both issued the insert; one
\* returned the row, the other was refused by the unique index.
C8_Witness ==
    /\ uniqueIds
    /\ \E r1, r2 \in Reqs :
         /\ r1 # r2
         /\ {r1, r2} \subseteq Inserters(SubjectOf(r1))
         /\ Authenticated(r1)
         /\ req[r2].fault = "conflict"
         /\ req[r2].response = [status |-> 401, error |-> "Failed to verify token"]

\* C9: for a request that authenticates, requireAdmin answers 403 "Admin
\* access required" when the stored role is anything but 'admin', and
\* returns no error response when it is 'admin'.
C9_AdminDecidedByStoredRole ==
    \A r \in Reqs :
        (Authenticated(r) /\ req[r].guard = "requireAdmin")
            => IF req[r].auth.dbUser.role = "admin"
               THEN req[r].response = NoResponse
               ELSE req[r].response = [status |-> 403, error |-> "Admin access required"]

\* C9 witness: requireAdmin has let an admin through and has answered 403 to
\* a user whose role is 'user'.
C9_Witness ==
    \E r1, r2 \in Reqs :
        /\ Authenticated(r1) /\ Authenticated(r2)
        /\ req[r1].guard = "requireAdmin" /\ req[r2].guard = "requireAdmin"
        /\ req[r1].auth.dbUser.role = "admin" /\ req[r1].response = NoResponse
        /\ req[r2].auth.dbUser.role = "user" /\ req[r2].response.status = 403

\* C10: when authentication fails, requireAdmin returns the 401 response of
\* requireAuth unchanged (its reason included); a request without a valid
\* token, or whose store operation failed, never gets 403.
C10_AdminPropagates401 ==
    \A r \in Reqs :
        (Done(r) /\ req[r].guard = "requireAdmin")
            => /\ ~Authenticated(r)
                    => /\ req[r].response.status = 401
                       /\ req[r].response.error =
                            IF req[r].auth.error # "" THEN req[r].auth.error
                            ELSE "Authentication required"
               /\ ~HasBearerPrefix(req[r].header)
                    => Unauthorized(r, "Authentication required")
               /\ (HasBearerPrefix(req[r].header) /\ ~ThreeSegments(req[r].header))
                    => Unauthorized(r, "Invalid token format")
               /\ req[r].fault # "" => Unauthorized(r, "Failed to verify token")
               /\ req[r].response.status = 403 => Authenticated(r)

\* C10 witness: requireAdmin has answered a request whose store operation
\* failed with 401 "Failed to verify token".
C10_Witness ==
    \E r \in Reqs :
        /\ Done(r)
        /\ req[r].guard = "requireAdmin"
        /\ req[r].fault = "unavailable"
        /\ Unauthorized(r, "Failed to verify token")

\* C15: for a token whose subject already has a users row, the guards return
\* that row as it is stored and leave every field of it unchanged, also when
\* the token's email differs from the stored one; no step of a guard
\* evaluation changes or removes an existing row.
C15_ExistingRowUntouched ==
    [][/\ \A u \in users : u \in users'
       /\ \A r \in Reqs :
            (req[r].pc = "lookup" /\ req'[r].pc = "done" /\ req'[r].fault = "")
                => /\ users' = users
                   /\ req'[r].auth.dbUser \in users
                   /\ req'[r].auth.dbUser.netlify_id = req[r].netlifyUser.id
                   /\ req'[r].auth.user = req[r].netlifyUser]_vars

\* C15 witness: a guard has returned the stored row of a subject whose token
\* carries another email than the row.
C15_Witness ==
    \E r \in Reqs :
        /\ Authenticated(r)
        /\ req[r].inserts = 0
        /\ req[r].auth.dbUser \in users
        /\ req[r].netlifyUser.email # req[r].auth.dbUser.email

AdminRows(table) == {u \in table : u.role = "admin"}

\* C16: every row the gate inserts has role 'user' and the sub and email of
\* the token of the request that inserts it, whatever roles the token
\* claims; no step adds a row whose role is 'admin'.
C16_InsertedRowIsUser ==
    [][/\ \A u \in users' \ users :
            /\ u.role = "user"
            /\ \E r \in Reqs :
                 /\ req[r].pc = "insert"
                 /\ req'[r].pc = "done"
                 /\ req'[r].auth.dbUser = u
                 /\ u.netlify_id = ClaimsOf(req[r].header).sub
                 /\ u.email = ClaimsOf(req[r].header).email
       /\ AdminRows(users') \subseteq AdminRows(users)]_vars

\* C16 witness: the gate has inserted a row with role 'user' for a token
\* that claims the admin role.
C16_Witness ==
    \E r \in Reqs :
        /\ Authenticated(r)
        /\ req[r].inserts = 1
        /\ ClaimsOf(req[r].header).roles = 1
        /\ req[r].auth.dbUser \in users
        /\ req[r].auth.dbUser.role = "user"

-----------------------------------------------------------------------------
(* Two requests compared *)

\* the characters before the first dot
HeadOf(s) ==
    LET d1 == CHOOSE d \in DotsOf(s) : \A e \in DotsOf(s) : d <= e
    IN  [i \in 1..(d1 - 1) |-> s[i]]

\* the characters after the last dot
TailOf(s) ==
    LET d2 == CHOOSE d \in DotsOf(s) : \A e \in DotsOf(s) : d >= e
    IN  [i \in 1..(Len(s) - d2) |-> s[d2 + i]]

\* the tokens of g and h are the same except for app_metadata.roles
SameExceptRoles(g, h) ==
    /\ WellFormed(g) /\ WellFormed(h)
    /\ HeadOf(TokenOf(g)) = HeadOf(TokenOf(h))
    /\ TailOf(TokenOf(g)) = TailOf(TokenOf(h))
    /\ [ClaimsOf(g) EXCEPT !.roles = 0] = [ClaimsOf(h) EXCEPT !.roles = 0]

\* the tokens of g and h have the same middle segment
SamePayload(g, h) ==
    /\ ThreeSegments(g) /\ ThreeSegments(h)
    /\ MiddleOf(TokenOf(g)) = MiddleOf(TokenOf(h))

\* r and q looked their subject up and each found a stored row, and the table
\* holds one row for that subject: rows are never changed or removed, so
\* both lookups saw this row
SameStoreView(r, q) ==
    /\ SubjectOf(r) = SubjectOf(q)
    /\ req[r].lookups = 1 /\ req[q].lookups = 1
    /\ req[r].inserts = 0 /\ req[q].inserts = 0
    /\ req[r].fault = "" /\ req[q].fault = ""
    /\ Cardinality(RowsOf(SubjectOf(r))) = 1

AdminEvaluated(r) == Done(r) /\ req[r].guard = "requireAdmin"

\* C17: two requests whose tokens are the same except for app_metadata.roles
\* get the same requireAdmin response when they are evaluated against the same
\* stored row; the response is Forbidden exactly when the stored role is not
\* "admin", whatever the token claims.
C17_RolesClaimIgnored ==
    \A r, q \in Reqs :
        (/\ AdminEvaluated(r) /\ AdminEvaluated(q)
         /\ SameStoreView(r, q)
         /\ SameExceptRoles(req[r].header, req[q].header))
            => /\ req[r].response = req[q].response
               /\ req[r].response.status = 403
                     <=> \A u \in RowsOf(SubjectOf(r)) : u.role # "admin"

\* C17 witness: of two such requests one claims the admin role in its token,
\* the other does not, the stored role is not admin, and both are Forbidden.
C17_Witness ==
    \E r, q \in Reqs :
        /\ AdminEvaluated(r) /\ AdminEvaluated(q)
        /\ SameExceptRoles(req[r].header, req[q].header)
        /\ SameStoreView(r, q)
        /\ ClaimsOf(req[r].header).roles = 1
        /\ ClaimsOf(req[q].header).roles # 1
        /\ req[r].response.status = 403
        /\ req[q].response.status = 403

\* the header h with its first and third segment replaced
Resigned(h) == Bearer(Tok(<<"tt">>, MiddleOf(TokenOf(h)), <<"uu">>))

\* tokens whose outcome depends on the clock
ExpiringHeaders ==
    {Bearer(Tok(<<"hh">>, Seg(<<"S1", "M1">> \o e), <<"ss">>)) : e \in ExpGroups}

\* C18: (a) at every time of the clock (read where no request has begun yet:
\* the synchronous part reads the header and the clock only) the synchronous
\* part of the gate decides the same for two three-segment tokens with the
\* same middle segment, expired or not; (b) two
\* requests with the same middle segment that were evaluated by the same
\* guard against the same stored row get the same user and the same response;
\* (c) a request whose payload names the sub of a stored admin row, and which
\* found that row, passes requireAdmin whatever its first and third segment.
C18_OutcomeIsFunctionOfPayload ==
    /\ (\A r \in Reqs : ~Begun(r))
          => \A h \in ExpiringHeaders : Decode(h, now) = Decode(Resigned(h), now)
    /\ \A r, q \in Reqs :
          (/\ Done(r) /\ Done(q)
           /\ req[r].guard = req[q].guard
           /\ SameStoreView(r, q)
           /\ SamePayload(req[r].header, req[q].header))
              => /\ req[r].auth = req[q].auth
                 /\ req[r].response = req[q].response
    /\ \A r \in Reqs :
          (/\ AdminEvaluated(r)
           /\ req[r].fault = ""
           /\ AdminRows(users) # {}
           /\ WellFormed(req[r].header)
           /\ LET claims == ClaimsOf(req[r].header)
              IN  /\ ~IsExpired(claims, now)
                  /\ \E u \in users : u.netlify_id = claims.sub
                  /\ \A u \in users : u.netlify_id = claims.sub => u.role = "admin")
              => req[r].response = NoResponse

\* C18 witness: a token signed "uu" with header "tt" has passed requireAdmin
\* as the stored admin, next to a request with the same payload and other
\* outer segments that passed too.
C18_Witness ==
    \E r, q \in Reqs :
        /\ AdminEvaluated(r) /\ AdminEvaluated(q)
        /\ SamePayload(req[r].header, req[q].header)
        /\ TailOf(TokenOf(req[r].header)) = <<"uu">>
        /\ TailOf(TokenOf(req[q].header)) = <<"ss">>
        /\ req[r].response = NoResponse
        /\ req[q].response = NoResponse
        /\ req[r].auth.dbUser.role = "admin"

-----------------------------------------------------------------------------
(* Store failures *)

\* the awaited statement of r throws in this step
StoreFailsFor(r) ==
    /\ req[r].pc \in {"lookup", "insert"}
    /\ req'[r].fault = "unavailable"

\* C20 as stated: a request whose lookup or insert failed is answered with a
\* 500-class status.
C20_StoreFailureIs500 ==
    \A r \in Reqs : req[r].fault = "unavailable" => req[r].response.status >= 500

\* C20 amended: when the lookup or the insert of a request fails, the guard
\* answers in that same step with 401 "Failed to verify token", a status
\* below 500; the statement is not issued again and the users table is left
\* as it was.
C20_StoreFailureIs401NoRetry ==
    [][\A r \in Reqs :
          StoreFailsFor(r)
              => /\ req'[r].pc = "done"
                 /\ req'[r].response = unauthorizedResponse("Failed to verify token")
                 /\ req'[r].response.status < 500
                 /\ req'[r].lookups = req[r].lookups
                 /\ req'[r].inserts = req[r].inserts
                 /\ users' = users]_vars

\* C20 witness: one request was answered after its lookup failed, another
\* after its insert failed.
C20_Witness ==
    \E r, q \in Reqs :
        /\ Done(r) /\ req[r].fault = "unavailable"
        /\ req[r].lookups = 1 /\ req[r].inserts = 0
        /\ Done(q) /\ req[q].fault = "unavailable"
        /\ req[q].lookups = 1 /\ req[q].inserts = 1
        /\ Unauthorized(r, "Failed to verify token")
        /\ Unauthorized(q, "Failed to verify token")

-----------------------------------------------------------------------------
(* The handlers behind the gate *)

\* the guard of r has returned an error response
GuardRefused(r) == Done(r) /\ req[r].response # NoResponse

\* the guard of r has returned without an error response
GuardPassed(r) == Done(r) /\ req[r].response = NoResponse

\* the call r takes this step
Steps(r) == call'[r] # call[r]

\* C11: a step that inserts, updates or deletes a survey, or deletes a
\* rating, is a step of a request to POST, PUT or DELETE /api/surveys whose
\* requireAdmin returned no error response; a request whose requireAdmin
\* returned an error response is answered with exactly that response, in a
\* step that leaves surveys and ratings as they are, and never reaches a
\* statement.
C11_NoChangeUnlessAdminPassed ==
    [][/\ (surveys' # surveys \/ ratings' # ratings)
            => \E r \in Reqs :
                 /\ Steps(r)
                 /\ call[r].op \in SurveyOps
                 /\ req[r].guard = "requireAdmin"
                 /\ GuardPassed(r)
       /\ \A r \in Reqs :
            (call[r].op \in SurveyOps /\ GuardRefused(r))
                => /\ call[r].pc \in {"guard", "done"}
                   /\ Steps(r) => /\ call'[r].pc = "done"
                                  /\ call'[r].answer = req[r].response
                                  /\ surveys' = surveys
                                  /\ ratings' = ratings]_vars

\* C11 witness: a DELETE of a stored survey that has a rating was answered
\* 403 "Admin access required", and the survey and its rating are there.
C11_Witness ==
    \E r \in Reqs :
        /\ call[r].op = "delete"
        /\ call[r].pc = "done"
        /\ call[r].answer = forbiddenResponse("Admin access required")
        /\ call[r].path \in SurveyIds(surveys)
        /\ \E x \in ratings : x.survey_id = call[r].path

\* the statement of r is applied in this step and r is answered 201
Applied(r) ==
    /\ call[r].pc = "statement"
    /\ call'[r].pc = "done"
    /\ call'[r].answer.status = 201

\* the ratings of the stored user row with this id for this survey
RatingsOf(table, userId, surveyId) ==
    {x \in table : x.user_id = userId /\ x.survey_id = surveyId}

OneRatingPerPair ==
    \A x, y \in ratings :
        (x.user_id # NullId /\ x.user_id = y.user_id /\ x.survey_id = y.survey_id)
            => x = y

\* C12: in the handler with the gate, a successful POST leaves exactly one
\* rating for its pair (stored user row, survey), holding the score of that
\* POST, and leaves the ratings of every other pair as they are; no other
\* step changes a rating.  So after any interleaving there is at most one
\* rating per pair, with the score of the POST applied last.
C12_OneRatingPerPairLastScore ==
    [][/\ \A r \in Reqs :
            Applied(r)
                => LET userId == req[r].auth.dbUser.id
                       surveyId == CastUuid(call[r].body.surveyId).id
                   IN  /\ Cardinality(RatingsOf(ratings', userId, surveyId)) = 1
                       /\ \A x \in RatingsOf(ratings', userId, surveyId) :
                             x.score = ToNumber(call[r].body.score)
                       /\ \A x \in ratings :
                             (x.user_id # userId \/ x.survey_id # surveyId)
                                 => x \in ratings'
       /\ (\A r \in Reqs : ~Applied(r)) => ratings' = ratings
       /\ OneRatingPerPair
       /\ OneRatingPerPair']_vars

\* C12 witness: two POSTs of one stored user for one survey overlapped, both
\* were answered 201 with different scores, and one rating is stored.
C12_Witness ==
    \E r, q \in Reqs :
        /\ r # q
        /\ call[r].answer.status = 201 /\ call[q].answer.status = 201
        /\ r \notin req[q].after /\ q \notin req[r].after
        /\ req[r].auth.dbUser.id = req[q].auth.dbUser.id
        /\ call[r].body.surveyId = call[q].body.surveyId
        /\ call[r].body.score # call[q].body.score
        /\ Cardinality(RatingsOf(ratings, req[r].auth.dbUser.id,
                                 CastUuid(call[r].body.surveyId).id)) = 1

\* a POST to one of the two ratings handlers
IsRatingPost(r) == call[r].op \in {"rate", "rateAnon"}

\* the body of r is an object whose score is no number or outside 1..10
BadScore(r) ==
    /\ IsRatingPost(r)
    /\ call[r].body.json = "object"
    /\ LET score == ToNumber(call[r].body.score)
       IN  score.nan \/ score.n < 1 \/ score.n > 10

ScoreMessage == Answer(400, "Score must be between 1 and 10")

\* C13 as stated: a POST with such a score is answered 400 "Score must be
\* between 1 and 10", with or without valid credentials.
C13_BadScoreIs400 ==
    \A r \in Reqs :
        (BadScore(r) /\ call[r].pc = "done") => call[r].answer = ScoreMessage

\* C13 amended: a POST with such a score never reaches its statement and
\* writes no rating.  The handler with the gate first returns the error
\* response of requireAuth (401) if there is one; otherwise, and in the
\* handler without the gate, a missing surveyId is answered 400 "surveyId is
\* required"; only then the answer is 400 "Score must be between 1 and 10".
C13_BadScoreIsRefused ==
    [][\A r \in Reqs :
          BadScore(r)
              => /\ call[r].pc \in {"guard", "done"}
                 /\ Steps(r) => ratings' = ratings
                 /\ call[r].pc = "done"
                      => call[r].answer =
                           IF call[r].op = "rate" /\ GuardRefused(r)
                           THEN req[r].response
                           ELSE IF ~Truthy(call[r].body.surveyId)
                           THEN Answer(400, "surveyId is required")
                           ELSE ScoreMessage]_vars

\* C13 witness: the handler with the gate answered 400 "Score must be
\* between 1 and 10" to valid credentials, a stored survey and score 11.
C13_Witness ==
    \E r \in Reqs :
        /\ call[r].op = "rate"
        /\ GuardPassed(r)
        /\ call[r].body.surveyId = JsStr(<<"a">>)
        /\ call[r].body.score = JsNum(11)
        /\ call[r].pc = "done"
        /\ call[r].answer = ScoreMessage

\* C14: every stored rating has a score s, a number, with 1 <= s <= 10.
C14_StoredScoresInRange ==
    \A x \in ratings : ~x.score.nan /\ 1 <= x.score.n /\ x.score.n <= 10

\* C14 witness: the on-conflict branch has replaced the score of a stored
\* rating by 10.
C14_Witness ==
    \E r \in Reqs :
        /\ call[r].op = "rate"
        /\ call[r].answer.status = 201
        /\ call[r].body.score = JsNum(10)
        /\ \E x \in ratings :
              /\ x.id = 1 /\ x.user_id = req[r].auth.dbUser.id
              /\ x.score = Num(10)
              /\ x.timestamp = call[r].timestamp
        /\ Cardinality(ratings) = 1

\* C19: when the lookup or the insert of the gate throws, requireAuth
\* returns 401 "Failed to verify token" to the handler, and the handler
\* answers with that response, not with 500, without reaching its statement.
C19_StoreFaultIs401NotEscaping ==
    \A r \in Reqs :
        req[r].fault # ""
            => /\ Done(r)
               /\ req[r].guard = "requireAuth"
               /\ Unauthorized(r, "Failed to verify token")
               /\ call[r].pc \in {"guard", "done"}
               /\ call[r].pc = "done"
                    => /\ call[r].answer = unauthorizedResponse("Failed to verify token")
                       /\ call[r].answer.status # 500
                       /\ call[r].fault = ""

\* C19 witness: the handler has answered one request whose lookup threw and
\* one whose insert threw.
C19_Witness ==
    \E r, q \in Reqs :
        /\ call[r].pc = "done" /\ call[q].pc = "done"
        /\ req[r].fault = "unavailable" /\ req[r].inserts = 0
        /\ req[q].fault # "" /\ req[q].inserts = 1
        /\ call[r].answer.status = 401
        /\ call[q].answer.status = 401

-----------------------------------------------------------------------------
(* One guard evaluation from its call to its return *)

\* the store answers every statement it was sent, with rows or with an error
StoreAnswers(r) ==
    LookupReturns(r) \/ InsertReturns(r) \/ InsertConflicts(r) \/ StoreFails(r)

\* One guard evaluation whose awaited statements settle.
SpecSingleFair == SpecSingle /\ WF_vars(StoreAnswers(1))

\* the reasons of a 401
Reasons ==
    {"Authentication required", "Invalid token format", "Token expired",
     "Failed to verify token"}

\* success, 401 with one reason, or 403
Outcomes ==
    {NoResponse, forbiddenResponse("Admin access required")}
        \cup {unauthorizedResponse(m) : m \in Reasons}

\* C21: one guard evaluation issues at most one lookup and at most one
\* insert, the insert only in a step in which the lookup returned no row
\* and only after the one lookup; a statement that failed ends the evaluation
\* in that step and is not issued again; an evaluation that has begun ends,
\* what it ended with is one of the outcomes, and it never changes afterwards.
C21_OneLookupOneInsertOneOutcome ==
    /\ [](\A r \in Reqs :
            /\ req[r].lookups <= 1
            /\ req[r].inserts <= 1
            /\ req[r].inserts = 1 => req[r].lookups = 1
            /\ req[r].pc = "insert" => req[r].inserts = 1
            /\ req[r].fault # "" => Done(r)
            /\ Done(r) => req[r].response \in Outcomes)
    /\ [][\A r \in Reqs :
            /\ req'[r].inserts > req[r].inserts
                 => /\ req[r].pc = "lookup"
                    /\ Matching(req[r].netlifyUser.id) = {}
            /\ (req[r].pc = "lookup" /\ req'[r].pc # "lookup")
                 => req'[r].lookups = req[r].lookups
            /\ Done(r) => req'[r] = req[r]]_vars
    /\ \A r \in Reqs : Begun(r) ~> Done(r)

\* C21 witness: an evaluation by requireAdmin issued its lookup and its
\* insert once each and ended with 403.
C21_Witness ==
    \E r \in Reqs :
        /\ Done(r)
        /\ req[r].guard = "requireAdmin"
        /\ req[r].lookups = 1 /\ req[r].inserts = 1
        /\ req[r].fault = ""
        /\ req[r].response = forbiddenResponse("Admin access required")

\* C22: requireAdmin answers 403 only after the lookup (and, for a subject
\* without a row, the insert) of extractUser: whenever it has answered 403,
\* the row it looked at is stored and carries the subject of the token, and
\* that row has role "user" if this evaluation inserted it.
C22_ForbiddenImpliesProvisioned ==
    \A r \in Reqs :
        (Done(r) /\ req[r].guard = "requireAdmin" /\ req[r].response.status = 403)
            => /\ req[r].lookups = 1
               /\ req[r].fault = ""
               /\ req[r].auth.dbUser \in users
               /\ req[r].auth.dbUser.netlify_id = SubjectOf(r)
               /\ req[r].inserts = 1 => req[r].auth.dbUser.role = "user"

\* C22 witness: a subject without a row called an admin route, was answered
\* 403, and now has a row with role "user".
C22_Witness ==
    \E r \in Reqs :
        /\ Done(r)
        /\ req[r].guard = "requireAdmin"
        /\ req[r].response = forbiddenResponse("Admin access required")
        /\ req[r].inserts = 1
        /\ NoRowBefore(r)
        /\ \E u \in users : u.netlify_id = SubjectOf(r) /\ u.role = "user"

-----------------------------------------------------------------------------
(* Endpoints that do not refuse *)

\* C23: a request without a bearer header makes extractUser return no user,
\* no stored row and no error without a lookup or an insert, and GET /api/me
\* answers it 200 {authenticated: false}.  GET /api/me answers 200 whatever
\* the token: never 401, never 403, and {authenticated: false} whenever
\* extractUser reported an error (malformed, expired, store failure).
C23_MeNeverRefuses ==
    \A r \in Reqs :
        call[r].op = "me"
            => /\ call[r].answer.status \notin {401, 403}
               /\ (Begun(r) /\ call[r].pc = "done")
                    => /\ call[r].answer = Answer(200, "")
                       /\ req[r].auth.error # "" => call[r].data = NoData
                       /\ call[r].data.authenticated
                            <=> (req[r].auth.user # NullUser /\ req[r].auth.dbUser # NullRow)
               /\ (Begun(r) /\ ~HasBearerPrefix(req[r].header))
                    => /\ Done(r)
                       /\ req[r].auth = AuthResult(NullUser, NullRow, "")
                       /\ NoStoreOperation(r)
                       /\ users \in SeedTables

\* C23 witness: GET /api/me with another scheme in the Authorization header
\* was answered 200 {authenticated: false}.
C23_Witness ==
    \E r \in Reqs :
        /\ call[r].op = "me"
        /\ call[r].pc = "done"
        /\ Begun(r)
        /\ req[r].header.present
        /\ StartsWith(req[r].header.value, BasicPrefix)
        /\ call[r].answer = Answer(200, "")
        /\ call[r].data = NoData

PublicOps == {"listSurveys", "getSurvey", "getRatings"}

\* C29: a request to GET /api/surveys, GET /api/surveys/:id or GET
\* /api/ratings never invokes the gate, whatever its Authorization header:
\* its slot of the gate stays idle, no step of it changes the users table,
\* and it is not answered 401 or 403.  A step that adds a users row is the
\* insert of a request that reached extractUser: through requireAuth or
\* requireAdmin, or from GET /api/me or GET /api/ratings/my.
C29_PublicReadsBypassGate ==
    [][/\ \A r \in Reqs :
            call[r].op \in PublicOps
                => /\ req[r] = IdleReq
                   /\ call[r].answer.status \notin {401, 403}
                   /\ Steps(r) => users' = users
       /\ users' # users
            => \E r \in Reqs :
                 /\ req[r].pc = "insert" /\ req'[r].pc = "done"
                 /\ call[r].op \notin PublicOps
                 /\ \/ req[r].guard \in Guards
                    \/ (req[r].guard = "extractUser" /\ call[r].op \in {"me", "my"})]_vars

\* C29 witness: GET /api/surveys/:id carrying the token of a subject without
\* a row was answered 200, and the users table is still empty.
C29_Witness ==
    \E r \in Reqs :
        /\ call[r].op = "getSurvey"
        /\ call[r].pc = "done"
        /\ call[r].answer = Answer(200, "")
        /\ HasBearerPrefix(call[r].header)
        /\ users = {}

-----------------------------------------------------------------------------
(* Statements that are not one transaction *)

\* the rating of survey "a" the store holds before any request
StoredRating ==
    [id |-> 1, survey_id |-> <<"a">>, score |-> Num(3), timestamp |-> 1000,
     user_id |-> NullId]

\* C26: DELETE /api/surveys/:id that passed requireAdmin is all-or-nothing:
\* once it has answered 200 no rating references the survey of its path, and
\* once it has answered anything else (404, 500) the rating the survey had
\* before is still stored, also with a POST /api/ratings for the same survey
\* running next to it.
C26_DeleteAllOrNothing ==
    \A r \in Reqs :
        (/\ call[r].op = "delete"
         /\ call[r].pc = "done"
         /\ req[r].pc = "done"
         /\ req[r].response = NoResponse)
            => IF call[r].answer.status = 200
               THEN \A x \in ratings : x.survey_id # call[r].path
               ELSE call[r].path = StoredRating.survey_id => StoredRating \in ratings

\* the case C26 names: the POST was applied between the two statements, the
\* second statement was rejected and the DELETE answered 500 with the stored
\* rating gone
C26_PostBetweenStatements ==
    \E r \in Reqs :
        /\ call[r].op = "delete"
        /\ call[r].pc = "done"
        /\ call[r].answer.status = 500
        /\ call[r].fault = "rejected"
        /\ call[r].path = StoredRating.survey_id
        /\ StoredRating \notin ratings
        /\ \E x \in ratings : x.survey_id = call[r].path

\* C30: every POST to the blob-backed handler that was answered 201 is in the
\* stored list (no request of the model is followed by 100 newer ratings),
\* whatever the interleaving of the POSTs' reads and writes, and the stored
\* list holds at most 100 entries.
C30_AcceptedPostsAreStored ==
    /\ Len(blob) <= MAX_RATINGS
    /\ \A r \in Reqs :
         (/\ call[r].op = "blobPost"
          /\ call[r].pc = "done"
          /\ call[r].answer.status = 201)
             => \E i \in DOMAIN blob : blob[i].id = r

-----------------------------------------------------------------------------
(* The client *)

\* C24: while AuthProvider is mounted, isAdmin implies isAuthenticated, and
\* dbUser is not set while user is null, also when logout runs while a
\* fetchDbUser request is in flight that resolves afterwards.
C24_AdminImpliesAuthenticated ==
    provider.mounted
        => /\ isAdmin(provider) => isAuthenticated(provider)
           /\ ~(provider.dbUser # NullRow /\ provider.user = 0)

\* C27: once a signup submit has gone through and the effects of its commit
\* have run, the modal is in mode "login", shows the confirmation-sent
\* message, and is not loading.
C27_SignupKeepsSuccess ==
    (modal.submitted = "signup" /\ modal.effects = {})
        => /\ modal.mode = "login"
           /\ modal.success # ""
           /\ ~modal.isLoading

\* C28: the mount effect sets isLoading false at once when there is no
\* current user; otherwise isLoading is false from the step at which the
\* fetchDbUser of the mount effect settles, whatever its outcome; a mounted
\* provider eventually has isLoading false, and isLoading never goes back
\* to true.
C28_LoadingEnds ==
    /\ [][/\ (~provider.mounted /\ provider'.mounted /\ provider.session = 0)
                => ~provider'.isLoading
          /\ (provider.fetch.mount /\ ~provider'.fetch.mount)
                => ~provider'.isLoading
          /\ ~provider.isLoading => ~provider'.isLoading]_vars
    /\ [](provider.mounted /\ provider.isLoading => provider.fetch.mount)
    /\ provider.mounted ~> ~provider.isLoading

\* C28 witness: the fetchDbUser of the mount effect was rejected, and the
\* provider is loaded with a user and no dbUser.
C28_Witness ==
    /\ provider.mounted
    /\ provider.user # 0
    /\ provider.dbUser = NullRow
    /\ ~provider.fetch.mount
    /\ ~provider.isLoading
    /\ provider.logout = "idle"
    /\ ~provider.fetch.login
    /\ modal = ClosedModal

\* C25: the ratings list of the survey page never holds two entries with the
\* same id and never more than 100 entries, however the load, fetchMyRating
\* and handleRate interleave.
C25_ListHasNoDuplicates ==
    /\ Len(page.ratings) <= ListLimit
    /\ \A i, j \in DOMAIN page.ratings :
         page.ratings[i].id = page.ratings[j].id => i = j

====
